---------------------------- MODULE Spec2Model ----------------------------
(***************************************************************************)
(* A model of the value-coercion and validation engine of break4w:         *)
(* Question._identify_remap_function (question.py), Categorical            *)
(* (categorical.py), Bool (bool.py) and Continous (continous.py), with     *)
(* their constructors, their flat records (_to_series, _read_series) and   *)
(* DataDictionary.update_question (data_dictionary.py).                    *)
(*                                                                         *)
(* Python values are records [t, s, h]: t is the Python type, s the text   *)
(* of a str (or of the str a tuple of characters was built from), and h    *)
(* the numeric value counted in halves, so that 1, 1.0, True and 1.5 are   *)
(* h = 2, 2, 2 and 3.  Cells of a column are Python objects (an object     *)
(* column of a DataFrame); np.nan is the singleton NaN and None is None.   *)
(***************************************************************************)
EXTENDS Integers, Sequences, FiniteSets, TLC

VARIABLES
    q,      \* the schema object (self): its attributes and its log
    map_,   \* the column map_[self.name] of the caller's DataFrame
    clock,  \* datetime.datetime.now(), as a counter
    last,   \* the last call made on the schema and how it ended
    prev,   \* the call before it
    dlog    \* the log of the DataDictionary that holds the schema

vars == <<q, map_, clock, last, prev, dlog>>

-----------------------------------------------------------------------------
(* Bounds of the model *)

MaxLen == 2      \* cells in a column
MaxCalls == 2    \* calls made on one schema

-----------------------------------------------------------------------------
(* Python values *)

PyNone == [t |-> "None", s |-> "", h |-> 0]
NaN == [t |-> "nan", s |-> "", h |-> 0]
PyStr(s) == [t |-> "str", s |-> s, h |-> 0]
PyInt(n) == [t |-> "int", s |-> "", h |-> n + n]
PyFloat(h) == [t |-> "float", s |-> "", h |-> h]
PyBool(b) == [t |-> "bool", s |-> "", h |-> IF b THEN PyInt(1).h ELSE 0]
PyTuple(s) == [t |-> "tuple", s |-> s, h |-> 0]

Numeric == {"int", "float", "bool"}

\* pd.isnull(x) for a scalar x
isnull(x) == x.t \in {"None", "nan"}

\* a == b in Python (NaN is compared by identity first, as containers do)
PyEq(a, b) ==
    IF a.t \in Numeric /\ b.t \in Numeric THEN a.h = b.h ELSE a = b

\* x in c, for a set or list c given as a set of values
PyIn(x, c) == \E y \in c : PyEq(x, y)

\* The text of the strings of the model, in the order of Python's str
\* comparison (code points)
StrOrder ==
    <<"0", "1", "1.5", "2", "3", "B", "False", "TBD", "True", "a", "b",
      "blank", "c", "error", "false", "no", "tbd", "true", "yes">>

StrRank(s) == CHOOSE i \in 1..Len(StrOrder) : StrOrder[i] = s

\* str.lower()
lower(s) ==
    CASE s = "B" -> "b"
      [] s = "False" -> "false"
      [] s = "TBD" -> "tbd"
      [] s = "True" -> "true"
      [] OTHER -> s

\* the strings int() accepts, with their values
IntLiteral == ("0" :> 0) @@ ("1" :> 1) @@ ("3" :> 3)

\* the strings float() accepts, with their values in halves
FloatLiteral == ("0" :> 0) @@ ("1" :> 2) @@ ("1.5" :> 3) @@ ("3" :> 6)

\* str(x) and '%s' % x for a scalar x
Format(x) ==
    CASE x.t = "str" -> x.s
      [] x.t = "int" -> ToString(x.h \div 2)
      [] x.t = "float" ->
            ToString(x.h \div 2) \o (IF x.h % 2 = 0 THEN ".0" ELSE ".5")
      [] x.t = "bool" -> IF x.h = 0 THEN "False" ELSE "True"
      [] x.t = "None" -> "None"
      [] x.t = "nan" -> "nan"
      [] OTHER -> x.s

\* dtype(x): [ok, v]; ok is FALSE when the constructor raises
Construct(dtype, x) ==
    CASE dtype = "str" -> [ok |-> TRUE, v |-> PyStr(Format(x))]
      [] dtype = "int" ->
            IF x.t = "str"
            THEN IF x.s \in DOMAIN IntLiteral
                 THEN [ok |-> TRUE, v |-> PyInt(IntLiteral[x.s])]
                 ELSE [ok |-> FALSE, v |-> PyNone]
            ELSE IF x.t \in Numeric
                 THEN [ok |-> TRUE, v |-> PyInt(x.h \div 2)]
                 ELSE [ok |-> FALSE, v |-> PyNone]
      [] dtype = "float" ->
            IF x.t = "str"
            THEN IF x.s \in DOMAIN FloatLiteral
                 THEN [ok |-> TRUE, v |-> PyFloat(FloatLiteral[x.s])]
                 ELSE [ok |-> FALSE, v |-> PyNone]
            ELSE IF x.t \in Numeric
                 THEN [ok |-> TRUE, v |-> PyFloat(x.h)]
                 ELSE [ok |-> FALSE, v |-> PyNone]
      [] dtype = "tuple" ->
            IF x.t = "str" THEN [ok |-> TRUE, v |-> PyTuple(x.s)]
            ELSE IF x.t = "tuple" THEN [ok |-> TRUE, v |-> x]
            ELSE [ok |-> FALSE, v |-> PyNone]
      [] OTHER -> [ok |-> FALSE, v |-> PyNone]


-----------------------------------------------------------------------------
(* Question._identify_remap_function *)

\* an optional attribute or argument: None, a value, or (Absent) an attribute
\* the object does not have
Nothing == [some |-> FALSE, attr |-> TRUE]
Some(v) == [some |-> TRUE, attr |-> TRUE, v |-> v]
Absent == [some |-> FALSE, attr |-> FALSE]

true_values ==
    {PyStr("yes"), PyStr("true"), PyInt(1), PyFloat(PyInt(1).h), PyBool(TRUE)}
false_values ==
    {PyStr("no"), PyStr("false"), PyInt(0), PyFloat(0), PyBool(FALSE)}

\* the value remap_ returns when a value cannot be cast: the str 'error'
ErrorMarker == PyStr("error")

\* a list of the characters of s (an unhashable cell)
PyList(s) == [t |-> "list", s |-> s, h |-> 0]

\* clean_up_strings of the bool branch, without the case conversion
clean_up_strings_keep_case(x, placeholders) == x

clean_up_strings(x, placeholders) ==
    IF x.t = "str" /\ ~PyIn(x, placeholders) THEN PyStr(lower(x.s)) ELSE x

\* remap_ with the case conversion made before the placeholder test
remap_lower_first(dtype, placeholders, x) ==
    LET y == IF dtype = "bool" /\ x.t = "str" THEN PyStr(lower(x.s)) ELSE x
    IN  IF isnull(y) \/ PyIn(y, placeholders) THEN y
        ELSE IF dtype = "bool"
             THEN IF PyIn(y, true_values) THEN PyBool(TRUE)
                  ELSE IF PyIn(y, false_values) THEN PyBool(FALSE)
                  ELSE ErrorMarker
             ELSE IF Construct(dtype, y).ok THEN Construct(dtype, y).v
                  ELSE ErrorMarker

\* the function remap_ that _identify_remap_function returns, on a scalar x
remap_(dtype, placeholders, x) ==
    IF PyIn(x, placeholders) \/ isnull(x) THEN x
    ELSE IF dtype = "bool"
         THEN LET y == clean_up_strings(x, placeholders)
              IN  IF PyIn(y, true_values) THEN PyBool(TRUE)
                  ELSE IF PyIn(y, false_values) THEN PyBool(FALSE)
                  ELSE ErrorMarker
         ELSE IF Construct(dtype, x).ok THEN Construct(dtype, x).v
              ELSE ErrorMarker

\* remap_ raises on a list of two elements: x in placeholders raises
\* TypeError (unhashable) for a set of placeholders, and for the default
\* list pd.isnull(x) is an array whose truth value raises ValueError
remap_raises(dtype, placeholders, x) == x.t = "list"

\* placeholders=None stands for no placeholders
PlaceholdersOf(arg) == IF arg.some THEN arg.v ELSE {}

Dtypes == {"str", "bool", "int", "float", "tuple"}

RawStrings ==
    {"error", "True", "true", "TBD", "1", "0", "1.5", "a", "yes", "no"}

RawValues ==
    {PyNone, NaN} \cup {PyStr(s) : s \in RawStrings}
    \cup {PyInt(0), PyInt(1), PyInt(3), PyFloat(PyInt(1).h), PyFloat(3),
          PyBool(TRUE), PyBool(FALSE), PyList("ab")}

PlaceholderArgs ==
    {Nothing} \cup
    {Some(p) : p \in SUBSET {PyStr("TBD"), PyStr("True"), PyStr("1"),
                             PyStr("error")}}

NoCall == [op |-> "none"]

\* the schema object before any schema is built
NoQuestion == [type |-> "none", log |-> <<>>]

\* the calls f_(x), f_ = _identify_remap_function(dtype, placeholders), that
\* the model makes
RemapCalls ==
    {[op |-> "remap_", done |-> FALSE, dtype |-> dtype, arg |-> arg,
      x |-> x, raised |-> FALSE, ret |-> PyNone] :
        dtype \in Dtypes, arg \in PlaceholderArgs, x \in RawValues}

InitCoerce ==
    /\ q = NoQuestion
    /\ map_ = <<>>
    /\ clock = 0
    /\ last \in RemapCalls
    /\ prev = NoCall
    /\ dlog = <<>>

\* the call is made
CallRemap ==
    /\ last.op = "remap_" /\ ~last.done
    /\ last' =
         [last EXCEPT
            !.done = TRUE,
            !.raised = remap_raises(last.dtype, PlaceholdersOf(last.arg),
                                    last.x),
            !.ret = IF remap_raises(last.dtype, PlaceholdersOf(last.arg),
                                    last.x)
                    THEN PyNone
                    ELSE remap_(last.dtype, PlaceholdersOf(last.arg), last.x)]
    /\ UNCHANGED <<q, map_, clock, prev, dlog>>

NextCoerce == CallRemap

SpecCoerce == InitCoerce /\ [][NextCoerce]_vars

Returned == last.op = "remap_" /\ last.done /\ ~last.raised

\* x was null or one of the placeholders
WasPlaceholder == isnull(last.x) \/ PyIn(last.x, PlaceholdersOf(last.arg))

\* the three kinds of result
IsPassThrough == WasPlaceholder /\ last.ret = last.x
IsFailure == last.ret = ErrorMarker
IsTyped == ~WasPlaceholder /\ last.ret.t = last.dtype

\* C4: the coercion function never raises and returns exactly one of a typed
\* value, the unchanged placeholder or null, or the coercion-failure marker;
\* a failure marker is never also a typed value or a placeholder.
C4_NeverRaisesOneKind ==
    (last.op = "remap_" /\ last.done) =>
        /\ ~last.raised
        /\ IsTyped \/ IsPassThrough \/ IsFailure
        /\ ~(IsTyped /\ IsFailure)
        /\ ~(IsPassThrough /\ IsFailure)
        /\ ~(IsTyped /\ IsPassThrough)

\* C5: a null or placeholder raw value is returned unchanged, the identical
\* literal, for every declared type, also when it could be cast or when it
\* matches a true/false token.
C5_PlaceholderUnchanged ==
    (Returned /\ WasPlaceholder) => last.ret = last.x

\* a placeholder that is also a true token in another case, on a bool column
C5_Witness ==
    /\ Returned /\ last.dtype = "bool"
    /\ last.x = PyStr("True") /\ PyStr("True") \in PlaceholdersOf(last.arg)
    /\ last.ret = PyStr("True")

\* the true and false tokens of the claim, on the case-folded value
IsTrueToken(x) ==
    \/ x.t = "str" /\ lower(x.s) \in {"yes", "true"}
    \/ x.t \in Numeric /\ x.h = PyInt(1).h
IsFalseToken(x) ==
    \/ x.t = "str" /\ lower(x.s) \in {"no", "false"}
    \/ x.t \in Numeric /\ x.h = 0

\* C6: on a bool column a non-null, non-placeholder value gives True when its
\* lower-cased form is a true token, False when it is a false token, and
\* the failure marker otherwise; on a str column the case is kept.
C6_BoolTokens ==
    (Returned /\ ~WasPlaceholder) =>
        /\ last.dtype = "bool" =>
              last.ret = IF IsTrueToken(last.x) THEN PyBool(TRUE)
                         ELSE IF IsFalseToken(last.x) THEN PyBool(FALSE)
                         ELSE ErrorMarker
        /\ (last.dtype = "str" /\ last.x.t = "str") => last.ret = last.x

\* 'True' on a bool column without placeholders is cast to True
C6_Witness ==
    /\ Returned /\ last.dtype = "bool" /\ ~last.arg.some
    /\ last.x = PyStr("True") /\ last.ret = PyBool(TRUE)

-----------------------------------------------------------------------------
(* The schema object and its log *)

\* _update_log keeping only the newest entry
_update_log_overwrite(self, now, command, transform_type, transformation) ==
    <<[timestamp |-> now, column |-> self.name, command |-> command,
       transform_type |-> transform_type,
       transformation |-> transformation]>>

\* Question._update_log: the log with one entry appended
_update_log(self, now, command, transform_type, transformation) ==
    Append(self.log,
           [timestamp |-> now, column |-> self.name, command |-> command,
            transform_type |-> transform_type,
            transformation |-> transformation])

\* str(self.dtype).replace("<class '", '').replace("'>", '')
DtypeName(self) == self.dtype

\* missing.union(blanks).union(ambiguous) of Continous.validate; an absent
\* or None attribute counts as the empty set
Placeholders(self) ==
    self.missing
    \cup (IF self.blanks.some THEN self.blanks.v ELSE {})
    \cup (IF self.ambiguous.some THEN self.ambiguous.v ELSE {})

\* series.apply(f): f over the cells, in order; f is a function on the
\* values it is applied to
Apply(f, series) == [i \in 1..Len(series) |-> f[series[i]]]

\* ['%s' % v for v in values]
FormatAll(values) == [i \in 1..Len(values) |-> Format(values[i])]

\* the values of a series or list, as a set
Values(series) == {series[i] : i \in 1..Len(series)}

\* a < b for two values sorted() can compare
PyLess(a, b) ==
    IF a.t \in Numeric THEN a.h < b.h ELSE StrRank(a.s) < StrRank(b.s)

\* sorted(S) raises TypeError when S holds values of types that do not
\* compare (None or a str with a number, None with anything)
Sortable(S) ==
    \A a, b \in S :
        a = b \/ (a.t \in Numeric /\ b.t \in Numeric)
              \/ (a.t = b.t /\ a.t \in {"str", "tuple"})

RECURSIVE sorted(_)
sorted(S) ==
    IF S = {} THEN <<>>
    ELSE LET m == CHOOSE a \in S : \A b \in S : a = b \/ PyLess(a, b)
         IN  <<m>> \o sorted(S \ {m})

RECURSIVE join(_, _)
\* sep.join(strs)
join(sep, strs) ==
    IF strs = <<>> THEN ""
    ELSE IF Len(strs) = 1 THEN strs[1]
    ELSE strs[1] \o sep \o join(sep, Tail(strs))

-----------------------------------------------------------------------------
(* Categorical.validate and Continous.validate *)

\* Categorical.validate(map_) on the column series: the exception raised (or
\* "none"), where it was raised, and the log afterwards
CategoricalValidate(self, series, now) ==
    IF self.blanks.some
    THEN \* blanks is bound only when self.blanks is None
         [exc |-> "UnboundLocalError", at |-> "placeholders",
          log |-> self.log]
    ELSE
    LET ambiguous == IF self.ambiguous.some THEN self.ambiguous.v ELSE {}
        placeholders == self.missing \cup ambiguous
        f_ == [x \in Values(series) \cup Values(self.order) |->
                  remap_(self.dtype, placeholders, x)]
        dseries == Apply(f_, series)
        new_order == Apply(f_, self.order)
    IN  IF \E i \in 1..Len(dseries) : PyEq(dseries[i], ErrorMarker)
        THEN [exc |-> "TypeError", at |-> "type check",
              log |-> _update_log(self, now, "validate", "error",
                         "the data cannot be cast to " \o DtypeName(self))]
        ELSE
        LET log1 == _update_log(self, now, "validate", "pass",
                        "the data can be cast to " \o DtypeName(self))
            self1 == [self EXCEPT !.log = log1]
            acceptable_values == placeholders \cup Values(new_order)
            actual_values == Values(dseries) \ {NaN}
            invalid == {v \in actual_values : ~PyIn(v, acceptable_values)}
        IN  IF invalid = {}
            THEN [exc |-> "none", at |-> "end",
                  log |-> _update_log(self1, now + 1, "validate", "pass",
                                      "all values were valid")]
            ELSE IF ~Sortable(invalid)
            THEN [exc |-> "TypeError", at |-> "sorted", log |-> log1]
            ELSE
            LET m_ == "The following are not valid values: "
                      \o join(" | ", FormatAll(sorted(invalid)))
            IN  [exc |-> "ValueError", at |-> "value check",
                 log |-> _update_log(self1, now + 1, "validate", "error",
                                     m_)]

\* np.any(iseries < self.bound_lower), cells equal to the bound included
lower_issue_inclusive(kept, bound_lower) ==
    bound_lower.t # "None" /\ \E v \in kept : v.h <= bound_lower.h

\* self.bound_lower is not None and np.any(iseries < self.bound_lower)
lower_issue(kept, bound_lower) ==
    bound_lower.t # "None" /\ \E v \in kept : v.h < bound_lower.h

\* self.bound_upper is not None and np.any(iseries > self.bound_upper)
upper_issue(kept, bound_upper) ==
    bound_upper.t # "None" /\ \E v \in kept : v.h > bound_upper.h

\* Continous.validate(map_) on the column series
ContinousValidate(self, series, now) ==
    LET placeholders == Placeholders(self)
        f_ == [x \in Values(series) |->
                  remap_(self.dtype, placeholders, x)]
        iseries == Apply(f_, series)
    IN  IF \E i \in 1..Len(iseries) : PyEq(iseries[i], ErrorMarker)
        THEN [exc |-> "TypeError", at |-> "type check",
              log |-> _update_log(self, now, "validate", "error",
                         "the data cannot be cast to " \o DtypeName(self))]
        ELSE
        LET log1 == _update_log(self, now, "validate", "pass",
                        "the data can be cast to " \o DtypeName(self))
            self1 == [self EXCEPT !.log = log1]
            \* iseries.replace(list(placeholders), np.nan).dropna()
            kept == {v \in Values(iseries) :
                        ~isnull(v) /\ ~PyIn(v, placeholders)}
            lo == self.bound_lower
            up == self.bound_upper
            update_text ==
                IF up.t # "None" /\ lo.t # "None"
                THEN "The values were between " \o Format(lo) \o " and "
                     \o Format(up) \o " " \o self.units \o "."
                ELSE IF up.t # "None"
                THEN "The values were less than or equal to " \o Format(up)
                     \o " " \o self.units \o "."
                ELSE IF lo.t # "None"
                THEN "The values were greater than or equal to "
                     \o Format(lo) \o " " \o self.units \o "."
                ELSE "there were no limits specified"
            low == lower_issue(kept, lo)
            high == upper_issue(kept, up)
            lower_text == "less than " \o Format(lo)
            upper_text == "greater than " \o Format(up)
            error_string ==
                IF low /\ high
                THEN "There are values " \o lower_text \o " and "
                     \o upper_text \o " " \o self.units \o "."
                ELSE IF low
                THEN "There are values " \o lower_text \o " "
                     \o self.units \o "."
                ELSE "There are values " \o upper_text \o " "
                     \o self.units \o "."
        IN  IF low \/ high
            THEN [exc |-> "ValueError", at |-> "value check",
                  log |-> _update_log(self1, now + 1, "validate", "error",
                                      error_string)]
            ELSE [exc |-> "none", at |-> "end",
                  log |-> _update_log(self1, now + 1, "validate", "pass",
                                      update_text)]

-----------------------------------------------------------------------------
(* Categorical._update_order and the operations that can fail *)

RECURSIVE last_seen(_, _)
\* the loop of _update_order, a repeated value moved to the end
last_seen(order, mapped) ==
    IF mapped = <<>> THEN order
    ELSE last_seen(
            IF isnull(Head(mapped)) THEN order
            ELSE Append(SelectSeq(order,
                                  LAMBDA o : ~PyEq(o, Head(mapped))),
                        Head(mapped)),
            Tail(mapped))

RECURSIVE first_seen(_, _)
\* the loop of _update_order over the mapped values new_o, in order
first_seen(order, mapped) ==
    IF mapped = <<>> THEN order
    ELSE first_seen(
            IF ~PyIn(Head(mapped), Values(order)) /\ ~isnull(Head(mapped))
            THEN Append(order, Head(mapped))
            ELSE order,
            Tail(mapped))

\* a transformation that leaves the list as it was
_update_order_skipped(remap, order) == order

\* Categorical._update_order(remap_): the new self.order
_update_order(remap, order) == first_seen(<<>>, Apply(remap, order))

\* Categorical.analysis_apply_conversion with a function remap_: the column,
\* the order and the log afterwards
analysis_apply_conversion(self, series, remap, command_name, loggable, now) ==
    LET pair == [o \in Values(self.order) |->
                    Format(o) \o " >>> " \o Format(remap[o])]
        message == join(" | ", Apply(pair, self.order))
    IN  [series |-> Apply(remap, series),
         order |-> _update_order(remap, self.order),
         log |-> IF loggable
                 THEN _update_log(self, now, "transformation", command_name,
                                  message)
                 ELSE self.log]

\* Categorical.analysis_remap_dtype(map_)
analysis_remap_dtype(self, series, now) ==
    IF self.blanks.some
    THEN [exc |-> "UnboundLocalError", at |-> "placeholders",
          series |-> series, order |-> self.order, log |-> self.log]
    ELSE
    LET ambiguous == IF self.ambiguous.some THEN self.ambiguous.v ELSE {}
        placeholders == self.missing \cup ambiguous
        f_ == [x \in Values(series) \cup Values(self.order) |->
                  remap_(self.dtype, placeholders, x)]
        oseries == Apply(f_, series)
    IN  IF \E i \in 1..Len(oseries) : PyEq(oseries[i], ErrorMarker)
        THEN [exc |-> "TypeError", at |-> "type check",
              series |-> series, order |-> self.order,
              log |-> _update_log(self, now, "transformation",
                         "cast data type",
                         "could not convert to " \o DtypeName(self))]
        ELSE [exc |-> "none", at |-> "end",
              series |-> oseries, order |-> _update_order(f_, self.order),
              log |-> _update_log(self, now, "transformation",
                         "cast data type",
                         "convert to " \o DtypeName(self))]

\* x in d and d[x] for a dict d, a function on its keys
HasKey(d, x) == \E k \in DOMAIN d : PyEq(k, x)
Item(d, x) == d[CHOOSE k \in DOMAIN d : PyEq(k, x)]

\* {g: i for (i, g) in d.items()}, for a dict with distinct values
Inverse(d) ==
    [g \in {d[k] : k \in DOMAIN d} |-> CHOOSE k \in DOMAIN d : d[k] = g]

\* Categorical.analysis_convert_to_label(map_)
analysis_convert_to_label(self, series, now) ==
    LET same == [series |-> series, order |-> self.order,
                 numeric_mapping |-> self.numeric_mapping]
    IN
    IF ~self.name_mapping.attr
    THEN [exc |-> "AttributeError", at |-> "name_mapping", log |-> self.log]
         @@ same
    ELSE IF ~self.name_mapping.some
    THEN [exc |-> "ValueError", at |-> "name_mapping",
          log |-> _update_log(self, now, "convert to label", "error",
                              "There is no way to map codes to labels")]
         @@ same
    ELSE IF ~self.numeric_mapping.attr
    THEN [exc |-> "AttributeError", at |-> "numeric_mapping",
          log |-> self.log] @@ same
    ELSE
    LET name_mapping == self.name_mapping.v
        remap == [x \in Values(series) \cup Values(self.order) |->
                     IF HasKey(name_mapping, x) THEN Item(name_mapping, x)
                     ELSE NaN]
        r == analysis_apply_conversion(self, series, remap,
                                       "convert code to label", TRUE, now)
    IN  [exc |-> "none", at |-> "end", series |-> r.series,
         order |-> r.order, log |-> r.log,
         numeric_mapping |-> IF self.numeric_mapping.some
                             THEN self.numeric_mapping
                             ELSE Some(Inverse(name_mapping))]

\* Bool.analysis_convert_to_word(map_)
analysis_convert_to_word(self, series, now) ==
    LET remap == [x \in Values(series) \cup Values(self.order) |->
            IF isnull(x) THEN x
            ELSE IF self.ambiguous.some /\ PyIn(x, self.ambiguous.v) THEN x
            ELSE IF x.t = "bool"
                 THEN IF x.h # 0 THEN PyStr("yes") ELSE PyStr("no")
                 ELSE ErrorMarker]
        r == analysis_apply_conversion(self, series, remap, "None", FALSE,
                                       now)
        \* remap_ gets past pd.isnull(x) for some value
        called == \E x \in Values(self.order) \cup Values(series) :
                     ~isnull(x)
    IN  IF ~self.ambiguous.some /\ called
        THEN \* x in self.ambiguous with self.ambiguous None
             [exc |-> "TypeError", at |-> "ambiguous", series |-> series,
              order |-> self.order, log |-> self.log]
        ELSE IF \E i \in 1..Len(r.series) : PyEq(r.series[i], ErrorMarker)
        THEN [exc |-> "ValueError", at |-> "standardize",
              series |-> r.series, order |-> r.order,
              log |-> _update_log(self, now, "convert boolean", "replace",
                                  "data could not be standardized")]
        ELSE [exc |-> "none", at |-> "end", series |-> r.series,
              order |-> r.order,
              log |-> _update_log(self, now, "convert boolean", "replace",
                                  "standarize to yes/no")]

\* _check_limits with >= in the place of >
_check_limits_strict(limits) ==
    IF limits.some
    THEN IF /\ limits.v[1].t # "None" /\ limits.v[2].t # "None"
            /\ limits.v[1].h >= limits.v[2].h
         THEN [exc |-> "ValueError", lower |-> PyNone, upper |-> PyNone]
         ELSE [exc |-> "none", lower |-> limits.v[1],
               upper |-> limits.v[2]]
    ELSE [exc |-> "none", lower |-> PyNone, upper |-> PyNone]

\* _check_limits(limits, var_name): limits is None or a pair
_check_limits(limits) ==
    IF limits.some
    THEN IF /\ limits.v[1].t # "None" /\ limits.v[2].t # "None"
            /\ limits.v[1].h > limits.v[2].h
         THEN [exc |-> "ValueError", lower |-> PyNone, upper |-> PyNone]
         ELSE [exc |-> "none", lower |-> limits.v[1],
               upper |-> limits.v[2]]
    ELSE [exc |-> "none", lower |-> PyNone, upper |-> PyNone]

\* Continous.dictionary_update_outliers(outliers)
dictionary_update_outliers(self, outliers, now) ==
    LET c == _check_limits(outliers)
    IN  IF c.exc # "none"
        THEN [exc |-> c.exc, at |-> "_check_limits",
              outlier_lower |-> self.outlier_lower,
              outlier_upper |-> self.outlier_upper, log |-> self.log]
        ELSE [exc |-> "none", at |-> "end", outlier_lower |-> c.lower,
              outlier_upper |-> c.upper,
              log |-> _update_log(self, now, "update outlier values",
                         "update dictionary",
                         "Outlier values have been updated: "
                         \o Format(self.outlier_lower) \o " > "
                         \o Format(c.lower) \o " and "
                         \o Format(self.outlier_upper) \o " > "
                         \o Format(c.upper) \o ".")]

-----------------------------------------------------------------------------
(* The schemas and columns of the model *)

Strs(S) == {PyStr(s) : s \in S}

\* the cells a column of each declared type is drawn from
CellsFor(dtype) ==
    {PyNone, NaN} \cup
    CASE dtype = "str" -> Strs({"a", "B", "c", "error", "TBD"})
      [] dtype = "bool" ->
            Strs({"True", "false", "TBD", "1"}) \cup {PyBool(TRUE)}
      [] dtype = "float" ->
            Strs({"1", "3", "1.5", "TBD", "a", "blank"})
      [] OTHER -> Strs({"1", "3", "1.5", "TBD", "a"})

RECURSIVE SeqsUpTo(_, _)
\* the sequences over S of length at most n
SeqsUpTo(S, n) ==
    IF n = 0 THEN {<<>>}
    ELSE LET shorter == SeqsUpTo(S, n - 1)
         IN  shorter \cup {Append(s, x) : s \in shorter, x \in S}

Columns(dtype) == SeqsUpTo(CellsFor(dtype), MaxLen)

MissingSets == {{}, Strs({"TBD"})}
BlanksArgs == {Nothing, Some(Strs({"blank"}))}
AmbiguousArgs == {Nothing, Some(Strs({"TBD"}))}

\* name_mapping={1: 'a', 3: 'B'}
CodeLabels == (PyInt(1) :> PyStr("a")) @@ (PyInt(3) :> PyStr("B"))

BaseQuestion ==
    [type |-> "Question", name |-> "column", dtype |-> "str",
     order |-> <<>>, missing |-> {}, blanks |-> Nothing,
     ambiguous |-> Absent, bound_lower |-> PyNone, bound_upper |-> PyNone,
     outlier_lower |-> PyNone, outlier_upper |-> PyNone, units |-> "",
     name_mapping |-> Absent, numeric_mapping |-> Absent,
     frequency_cutoff |-> PyNone, description |-> "", clean_name |-> "",
     free_response |-> FALSE, ref_val |-> PyNone, other |-> <<>>,
     log |-> <<>>]

OrderFor(dtype) ==
    CASE dtype = "str" -> <<PyStr("a")>>
      [] dtype = "bool" -> <<PyStr("True"), PyStr("False")>>
      [] OTHER -> <<PyStr("1"), PyStr("3")>>

CategoricalSchemas ==
    {[BaseQuestion EXCEPT
        !.type = "Categorical", !.name = "position", !.dtype = d,
        !.order = OrderFor(d), !.missing = m, !.blanks = b,
        !.ambiguous = a] :
        d \in {"str", "int"}, m \in MissingSets, b \in BlanksArgs,
        a \in AmbiguousArgs}
    \cup
    {[BaseQuestion EXCEPT
        !.type = "Categorical", !.name = "years_on_team", !.dtype = "int",
        !.order = OrderFor("int"), !.missing = Strs({"TBD"}),
        !.ambiguous = Nothing,
        !.name_mapping = nm[1], !.numeric_mapping = nm[2]] :
        nm \in {<<Nothing, Nothing>>, <<Some(CodeLabels), Nothing>>,
                <<Some(CodeLabels), Absent>>}}

BoolSchemas ==
    {[BaseQuestion EXCEPT
        !.type = "Bool", !.name = "team_captain", !.dtype = "bool",
        !.order = OrderFor("bool"), !.missing = m, !.blanks = b,
        !.ambiguous = a] :
        m \in MissingSets, b \in BlanksArgs, a \in AmbiguousArgs}

Bounds == {PyNone, PyInt(1), PyInt(2)}

ContinousSchemas ==
    {[BaseQuestion EXCEPT
        !.type = "Continous", !.name = "years_on_team", !.dtype = d,
        !.missing = Strs({"TBD"}), !.blanks = b, !.units = "years",
        !.bound_lower = lo, !.bound_upper = up,
        !.outlier_upper = PyInt(3)] :
        d \in {"int", "float"}, b \in BlanksArgs, lo \in Bounds,
        up \in {PyNone, PyInt(2)}}

Schemas == CategoricalSchemas \cup BoolSchemas \cup ContinousSchemas

\* no call has been made on the schema
Uncalled ==
    [op |-> "none", exc |-> "none", at |-> "", n |-> 0, before |-> 0,
     series |-> <<>>, order |-> <<>>, tables |-> <<>>, arg |-> Nothing]

\* the schema and the column the calls are made on
Init ==
    /\ q \in Schemas
    /\ map_ \in Columns(q.dtype)
    /\ clock = 0
    /\ last = Uncalled
    /\ prev = Uncalled
    /\ dlog = <<>>

\* the record of a call that ended with r: how it ended, and the length of
\* the log, the column, the admissible list and the label and rank tables
\* as they were before it
Call(op, r) ==
    [op |-> op, exc |-> r.exc, at |-> r.at, n |-> last.n + 1,
     before |-> Len(q.log), series |-> map_, order |-> q.order,
     tables |-> <<q.name_mapping, q.numeric_mapping>>, arg |-> Nothing]

\* validate that keeps the coerced cells in the column of the caller and
\* the coerced values in the list
validate_in_place(self, series, now) ==
    LET r == IF self.type = "Continous"
             THEN ContinousValidate(self, series, now)
             ELSE CategoricalValidate(self, series, now)
        f_ == [x \in Values(series) \cup Values(self.order) |->
                  remap_(self.dtype, Placeholders(self), x)]
    IN  [exc |-> r.exc, at |-> r.at, series |-> Apply(f_, series),
         question |-> [self EXCEPT !.log = r.log,
                                   !.order = Apply(f_, self.order)]]

\* validate(map_) of the class of the schema: how it ends, and the column
\* and the schema afterwards.  The cells are coerced in a copy of the
\* column (iseries) and the list in a local list (new_order); no attribute
\* is assigned
validate(self, series, now) ==
    LET r == IF self.type = "Continous"
             THEN ContinousValidate(self, series, now)
             ELSE CategoricalValidate(self, series, now)
    IN  [exc |-> r.exc, at |-> r.at, series |-> series,
         question |-> [self EXCEPT !.log = r.log]]

\* validate(map_)
Validate ==
    /\ last.n < MaxCalls
    /\ LET r == validate(q, map_, clock)
       IN  /\ q' = r.question
           /\ map_' = r.series
           /\ clock' = clock + Len(r.question.log) - Len(q.log)
           /\ last' = Call("validate", r)
    /\ prev' = last
    /\ UNCHANGED dlog

\* analysis_remap_dtype(map_)
RemapDtype ==
    /\ last.n < MaxCalls
    /\ q.type \in {"Categorical", "Bool"}
    /\ LET r == analysis_remap_dtype(q, map_, clock)
       IN  /\ q' = [q EXCEPT !.log = r.log, !.order = r.order]
           /\ map_' = r.series
           /\ clock' = clock + Len(r.log) - Len(q.log)
           /\ last' = Call("analysis_remap_dtype", r)
    /\ prev' = last
    /\ UNCHANGED dlog

\* analysis_convert_to_label(map_)
ConvertToLabel ==
    /\ last.n < MaxCalls
    /\ q.type \in {"Categorical", "Bool"}
    /\ LET r == analysis_convert_to_label(q, map_, clock)
       IN  /\ q' = [q EXCEPT !.log = r.log, !.order = r.order,
                             !.numeric_mapping = r.numeric_mapping]
           /\ map_' = r.series
           /\ clock' = clock + Len(r.log) - Len(q.log)
           /\ last' = Call("analysis_convert_to_label", r)
    /\ prev' = last
    /\ UNCHANGED dlog

\* analysis_convert_to_word(map_)
ConvertToWord ==
    /\ last.n < MaxCalls
    /\ q.type = "Bool"
    /\ LET r == analysis_convert_to_word(q, map_, clock)
       IN  /\ q' = [q EXCEPT !.log = r.log, !.order = r.order]
           /\ map_' = r.series
           /\ clock' = clock + Len(r.log) - Len(q.log)
           /\ last' = Call("analysis_convert_to_word", r)
    /\ prev' = last
    /\ UNCHANGED dlog

\* the arguments of dictionary_update_outliers: [None, 3], [3, 3] and [3, 1]
OutlierArgs ==
    {Some(<<PyNone, PyInt(3)>>), Some(<<PyInt(3), PyInt(3)>>),
     Some(<<PyInt(3), PyInt(1)>>)}

\* dictionary_update_outliers(outliers)
UpdateOutliers ==
    /\ last.n < MaxCalls
    /\ q.type = "Continous"
    /\ \E outliers \in OutlierArgs :
         LET r == dictionary_update_outliers(q, outliers, clock)
         IN  /\ q' = [q EXCEPT !.log = r.log,
                               !.outlier_lower = r.outlier_lower,
                               !.outlier_upper = r.outlier_upper]
             /\ clock' = clock + Len(r.log) - Len(q.log)
             /\ last' = [Call("dictionary_update_outliers", r)
                           EXCEPT !.arg = outliers]
    /\ prev' = last
    /\ UNCHANGED dlog
    /\ UNCHANGED map_

Next ==
    \/ Validate
    \/ RemapDtype
    \/ ConvertToLabel
    \/ ConvertToWord
    \/ UpdateOutliers

Spec == Init /\ [][Next]_vars

-----------------------------------------------------------------------------
(* Categorical._update_order on its own *)

MaxOrder == 3    \* values in an admissible list

OrderValues == Strs({"a", "B", "c"})

\* what a mapping function returns: new labels, two values that are equal
\* in Python (1 == True), and the two nulls
OrderImages ==
    {PyStr("x"), PyStr("y"), PyInt(1), PyBool(TRUE), PyNone, NaN}

InitOrder ==
    /\ \E L \in SeqsUpTo(OrderValues, MaxOrder) :
        /\ q = [BaseQuestion EXCEPT !.type = "Categorical",
                                    !.name = "position", !.order = L]
        /\ \E f \in [OrderValues -> OrderImages] :
              last = [op |-> "_update_order", done |-> FALSE, f |-> f,
                      L |-> L]
    /\ map_ = <<>>
    /\ clock = 0
    /\ prev = NoCall
    /\ dlog = <<>>

\* self._update_order(remap_) with remap_ the function last.f
CallUpdateOrder ==
    /\ last.op = "_update_order" /\ ~last.done
    /\ q' = [q EXCEPT !.order = _update_order(last.f, q.order)]
    /\ last' = [last EXCEPT !.done = TRUE]
    /\ UNCHANGED <<map_, clock, prev, dlog>>

NextOrder == CallUpdateOrder

SpecOrder == InitOrder /\ [][NextOrder]_vars

\* the first position of L whose image is equal to v
FirstPreimage(f, L, v) ==
    CHOOSE i \in 1..Len(L) :
        /\ PyEq(f[L[i]], v)
        /\ \A j \in 1..(i - 1) : ~PyEq(f[L[j]], v)

\* C7: _update_order replaces L by the images of L under f, in order, without
\* the nulls and with only the first occurrence of each image: no
\* duplicates, no nulls, exactly the non-null images, each at the place of
\* its earliest pre-image.
C7_UpdateOrder ==
    (last.op = "_update_order" /\ last.done) =>
        LET f == last.f
            L == last.L
            new == q.order
        IN  /\ \A i, j \in 1..Len(new) : i # j => ~PyEq(new[i], new[j])
            /\ \A i \in 1..Len(new) : ~isnull(new[i])
            /\ \A i \in 1..Len(L) :
                  ~isnull(f[L[i]]) => PyIn(f[L[i]], Values(new))
            /\ \A i \in 1..Len(new) :
                  /\ \E j \in 1..Len(L) : PyEq(f[L[j]], new[i])
                  /\ new[i] = f[L[FirstPreimage(f, L, new[i])]]
            /\ \A i, j \in 1..Len(new) :
                  i < j => FirstPreimage(f, L, new[i])
                              < FirstPreimage(f, L, new[j])

\* two values merged into one label that takes the place of the first, and
\* a value dropped
C7_Witness ==
    /\ last.op = "_update_order" /\ last.done
    /\ last.L = <<PyStr("a"), PyStr("B"), PyStr("c")>>
    /\ last.f[PyStr("a")] = PyStr("x") /\ last.f[PyStr("B")] = PyStr("y")
    /\ last.f[PyStr("c")] = PyStr("x")
    /\ q.order = <<PyStr("x"), PyStr("y")>>

-----------------------------------------------------------------------------
(* Claims about validate and the operations that can fail *)

\* dtype(x) succeeds, or x is a true or false token of a bool column
Convertible(dtype, x) ==
    IF dtype = "bool" THEN IsTrueToken(x) \/ IsFalseToken(x)
    ELSE Construct(dtype, x).ok

\* a cell that is not null, not a placeholder and cannot be cast
BadCell(self, x) ==
    /\ ~isnull(x)
    /\ ~PyIn(x, Placeholders(self))
    /\ ~Convertible(self.dtype, x)

\* the entries the last call appended to the log
Appended == SubSeq(q.log, last.before + 1, Len(q.log))

\* C1: the type check of validate fails with TypeError exactly when some
\* cell is non-null, is no placeholder and cannot be cast to the declared
\* type; the value check is then not run and logs nothing.
C1_TypeErrorIffBadCell ==
    last.op = "validate" =>
        /\ (last.exc = "TypeError" /\ last.at = "type check")
              <=> \E i \in 1..Len(map_) : BadCell(q, map_[i])
        /\ (\E i \in 1..Len(map_) : BadCell(q, map_[i])) =>
              /\ last.exc # "none"
              /\ Len(Appended) = 1
              /\ Appended[1].transform_type = "error"

\* the non-null coerced cells of the column that are neither placeholders
\* nor coerced admissible values
Offending(self, series) ==
    LET f_(x) == remap_(self.dtype, Placeholders(self), x)
        coerced == {v \in {f_(x) : x \in Values(series)} : ~isnull(v)}
        acceptable ==
            Placeholders(self) \cup {f_(o) : o \in Values(self.order)}
    IN  {v \in coerced : ~PyIn(v, acceptable)}

\* C2: once the type check has passed, Categorical.validate raises
\* ValueError exactly when some non-null coerced cell is outside the
\* placeholders and the coerced admissible list, null cells never count, and
\* the message lists the offending values, each once, sorted.
C2_ValueErrorIffOutsideDomain ==
    (/\ last.op = "validate" /\ q.type \in {"Categorical", "Bool"}
     /\ last.at \in {"end", "value check", "sorted"}) =>
        /\ last.exc = "ValueError" <=> Offending(q, map_) # {}
        /\ Offending(q, map_) = {} => last.exc = "none"
        /\ last.exc = "ValueError" =>
              q.log[Len(q.log)].transformation =
                 "The following are not valid values: "
                 \o join(" | ", FormatAll(sorted(Offending(q, map_))))

\* the coerced cells that take part in the comparison with the bounds
Compared(self, series) ==
    {remap_(self.dtype, Placeholders(self), series[i]) :
        i \in {j \in 1..Len(series) :
                  ~isnull(series[j])
                  /\ ~PyIn(series[j], Placeholders(self))}}

BelowLower(self, series) ==
    /\ self.bound_lower.t # "None"
    /\ \E v \in Compared(self, series) : v.h < self.bound_lower.h

AboveUpper(self, series) ==
    /\ self.bound_upper.t # "None"
    /\ \E v \in Compared(self, series) : v.h > self.bound_upper.h

C3_WitnessAtBound ==
    /\ last.op = "validate" /\ q.type = "Continous" /\ last.exc = "none"
    /\ q.bound_lower = PyInt(1)
    /\ map_ = <<PyStr("1"), PyStr("TBD")>>

\* the last call ended in one of the raise statements of the code, not in
\* an exception of the interpreter
Signalled ==
    /\ last.op # "none"
    /\ last.exc \in {"TypeError", "ValueError"}
    /\ last.at \in {"type check", "value check", "name_mapping",
                    "standardize", "_check_limits"}

\* C8: when an operation signals a failure to its caller, an entry that
\* describes the failure has been appended to the log by that call.
C8_FailureLoggedFirst ==
    Signalled =>
        /\ Len(q.log) > last.before
        /\ q.log[Len(q.log)].transform_type # "pass"

\* C9: a validate call appends one 'validate' entry per phase: pass and
\* pass when it passes, one error when the type check fails, pass and error
\* when the value check fails, and nothing else.
C9_EntriesPerPhase ==
    last.op = "validate" =>
        LET e == Appended
            kinds == [i \in 1..Len(e) |-> e[i].transform_type]
        IN  /\ \A i \in 1..Len(e) : e[i].command = "validate"
            /\ \/ last.exc = "none" /\ kinds = <<"pass", "pass">>
               \/ last.exc = "TypeError" /\ kinds = <<"error">>
               \/ last.exc = "ValueError" /\ kinds = <<"pass", "error">>

\* an entry without its timestamp
NoTime(e) == [e EXCEPT !.timestamp = 0]
NoTimes(es) == [i \in 1..Len(es) |-> NoTime(es[i])]

\* C10: two validate calls in a row on the same schema and column end the
\* same way and append the same entries, timestamps aside.
C10_ValidateTwice ==
    (last.op = "validate" /\ prev.op = "validate") =>
        /\ last.exc = prev.exc
        /\ last.at = prev.at
        /\ NoTimes(Appended)
              = NoTimes(SubSeq(q.log, prev.before + 1, last.before))

\* two failing calls in a row, each with its two entries
C10_Witness ==
    /\ last.op = "validate" /\ prev.op = "validate"
    /\ last.exc = "ValueError" /\ prev.exc = "ValueError"
    /\ Len(q.log) = 4
    /\ q.log[2].transformation = q.log[4].transformation
    /\ q.log[2].timestamp < q.log[4].timestamp

-----------------------------------------------------------------------------
(* The transformations of Categorical, write_provenance and              *)
(* DataDictionary.update_question                                         *)

\* remap_ for a dict, sending every value that is not a key to NaN
dict_remap_keys_only(mapping, values) ==
    [x \in values |-> IF HasKey(mapping, x) THEN Item(mapping, x) ELSE NaN]

\* remap_ of analysis_apply_conversion for a dict: mapping[x] if x is a key
\* of the copy of the dict, else x; a function on values
dict_remap(mapping, values) ==
    [x \in values |-> IF HasKey(mapping, x) THEN Item(mapping, x) ELSE x]

\* Categorical.analysis_apply_conversion(map_, remap_, ...) with a dict
analysis_apply_conversion_dict(self, series, mapping, command_name, loggable, now) ==
    analysis_apply_conversion(
        self, series,
        dict_remap(mapping, Values(series) \cup Values(self.order)),
        command_name, loggable, now)

\* isinstance(x, (int, float)): bool is an int, np.nan is a float
IsIntOrFloat(x) == x.t \in Numeric \cup {"nan"}

\* {g: i for i, g in enumerate(order)}[g]: the last index of g
Code(order, g) ==
    LET at == {i \in 1..Len(order) : PyEq(order[i], g)}
    IN  PyInt((CHOOSE i \in at : \A j \in at : j <= i) - 1)

\* Categorical.analysis_convert_to_numeric(map_)
analysis_convert_to_numeric(self, series, now) ==
    IF ~self.numeric_mapping.attr
    THEN [exc |-> "AttributeError", at |-> "numeric_mapping",
          series |-> series, order |-> self.order, log |-> self.log,
          numeric_mapping |-> self.numeric_mapping,
          name_mapping |-> self.name_mapping]
    ELSE
    LET order == self.order
        mapping == [g \in Values(order) |-> Code(order, g)]
        name_mapping == [c \in {PyInt(i - 1) : i \in 1..Len(order)} |->
                            order[(c.h \div 2) + 1]]
        remap_c == [x \in Values(series) \cup Values(order) |->
                      IF IsIntOrFloat(x) THEN x
                      ELSE IF PyIn(x, Values(order)) THEN Code(order, x)
                      ELSE NaN]
        r == analysis_apply_conversion(self, series, remap_c,
                                       "convert label to code", TRUE, now)
    IN  [exc |-> "none", at |-> "end", series |-> r.series,
         order |-> r.order, log |-> r.log,
         numeric_mapping |-> IF self.numeric_mapping.some
                             THEN self.numeric_mapping ELSE Some(mapping),
         name_mapping |-> Some(name_mapping)]

\* the largest member of a non-empty set of numbers
Max(S) == CHOOSE m \in S : \A n \in S : n <= m

\* map_.groupby(self.name).count().max(1)[g]: over the other columns of the
\* frame, the largest number of non-null cells in the rows of the column
\* that hold g; NaN (Nothing) when no row holds g or when the frame has no
\* other column.  others[c][i] says that row i of other column c is non-null
counts(series, others, g) ==
    LET rows == {i \in 1..Len(series) : PyEq(series[i], g)}
    IN  IF rows = {} \/ others = <<>> THEN Nothing
        ELSE Some(Max({Cardinality({i \in rows : others[c][i]}) :
                          c \in 1..Len(others)}))

\* Categorical.analysis_drop_infrequent(map_)
analysis_drop_infrequent(self, series, others, now) ==
    IF self.frequency_cutoff.t = "None"
    THEN \* counts <= None
         [exc |-> "TypeError", at |-> "frequency_cutoff",
          series |-> series, order |-> self.order, log |-> self.log]
    ELSE
    LET cutoff == self.frequency_cutoff.h \div 2
        below == {g \in Values(self.order) :
                     LET n == counts(series, others, g)
                     IN  ~n.some \/ n.v <= cutoff}
        remap_b == [x \in Values(series) \cup Values(self.order) |->
                      IF PyIn(x, below) THEN NaN ELSE x]
        r == analysis_apply_conversion(self, series, remap_b, "False",
                                       FALSE, now)
    IN  IF \E g \in below : g.t # "str"
        THEN \* ' | '.join(sorted(below)) of values that are not str
             [exc |-> "TypeError", at |-> "join", series |-> r.series,
              order |-> r.order, log |-> r.log]
        ELSE [exc |-> "none", at |-> "end", series |-> r.series,
              order |-> r.order,
              log |-> _update_log([self EXCEPT !.log = r.log], now,
                         "drop infrequent values", "drop",
                         "below " \o ToString(cutoff) \o ": "
                         \o join(" | ", FormatAll(sorted(below))))]

\* list.remove(m) when m in list: the list without the first m
RemoveFirst(order, m) ==
    IF ~PyIn(m, Values(order)) THEN order
    ELSE LET at == CHOOSE i \in 1..Len(order) :
                      /\ PyEq(order[i], m)
                      /\ \A j \in 1..(i - 1) : ~PyEq(order[j], m)
         IN  SubSeq(order, 1, at - 1) \o SubSeq(order, at + 1, Len(order))

RECURSIVE RemoveEach(_, _)
\* for m in self.missing: if m in self.order: self.order.remove(m)
RemoveEach(order, missing) ==
    IF missing = <<>> THEN order
    ELSE RemoveEach(RemoveFirst(order, Head(missing)), Tail(missing))

\* Categorical.analysis_remap_null(map_); list(self.missing) is taken in
\* sorted order
analysis_remap_null(self, series, now) ==
    LET missing == sorted(self.missing)
    IN  [exc |-> "none", at |-> "end",
         series |-> [i \in 1..Len(series) |->
                        IF PyIn(series[i], self.missing) THEN NaN
                        ELSE series[i]],
         order |-> RemoveEach(self.order, missing),
         log |-> _update_log(self, now, "correct null values", "drop",
                             join(" | ", FormatAll(missing)))]

\* _remap of analyis_remove_ambiguous, keeping the nulls as they are
_remap_keep_all(ambiguous, values) == [x \in values |-> x]

\* _remap of analyis_remove_ambiguous, a function on values
_remap(ambiguous, values) ==
    [x \in values |->
        IF isnull(x) THEN NaN
        ELSE IF PyIn(x, ambiguous) THEN NaN
        ELSE x]

\* Categorical.analyis_remove_ambiguous(map_); the ambiguous values are
\* listed in sorted order
analyis_remove_ambiguous(self, series, now) ==
    IF ~self.ambiguous.some
    THEN \* [v for v in self.ambiguous] with self.ambiguous None
         [exc |-> "TypeError", at |-> "join", series |-> series,
          order |-> self.order, log |-> self.log]
    ELSE
    LET f == _remap(self.ambiguous.v,
                    Values(series) \cup Values(self.order))
    IN  [exc |-> "none", at |-> "end", series |-> Apply(f, series),
         order |-> _update_order(f, self.order),
         log |-> _update_log(self, now, "remove ambiguous values", "drop",
                    join(" | ", FormatAll(sorted(self.ambiguous.v))))]

\* Question.write_provenance(): the log afterwards
write_provenance(self, now) ==
    [exc |-> "none", at |-> "end",
     log |-> _update_log(self, now, "Write Log", "recording", "")]

\* DataDictionary._update_log: the dictionary log with one entry appended
dict_update_log(log, now, command, column, transform_type, transformation) ==
    Append(log,
           [timestamp |-> now, column |-> column, command |-> command,
            transform_type |-> transform_type,
            transformation |-> transformation])

\* update_question setting the log like every other attribute
update_question_setlog(self, dictlog, update, now) ==
    [exc |-> "none", at |-> "end", dlog |-> dictlog,
     question |-> [k \in DOMAIN self |->
                      IF k \in DOMAIN update THEN update[k] ELSE self[k]]]

\* DataDictionary.update_question(update) on a dictionary that holds the
\* schema self under self.name.  update is a dict (a function on attribute
\* names) with the key 'name', or vars() of a Question; its other keys are
\* attributes the schema has
update_question(self, dictlog, update, now) ==
    LET name == update["name"]
    IN
    IF name # self.name
    THEN [exc |-> "ValueError", at |-> "name", question |-> self,
          dlog |-> dict_update_log(dictlog, now, "update question", name,
                      "error",
                      name \o " is not a question in the current "
                      \o "dictionary.\nHave you tried adding the question?")]
    ELSE
    LET diff == {k \in DOMAIN update : k # "log" /\ update[k] # self[k]}
        changed(k) == k \o " : " \o self[k] \o " > " \o update[k]
        message == IF "units" \in diff THEN changed("units") ELSE ""
        log == IF "log" \in DOMAIN update THEN self.log \o update["log"]
               ELSE self.log
    IN  [exc |-> "none", at |-> "end",
         question |-> [k \in DOMAIN self |->
                          IF k = "log" THEN log
                          ELSE IF k \in diff THEN update[k] ELSE self[k]],
         dlog |-> dict_update_log(dictlog, now, "update question", name,
                     "update dictionary values", message)]

-----------------------------------------------------------------------------
(* Schemas with their transformations *)

\* str.lower as the function handed to analysis_apply_conversion
str_lower(x) == IF x.t = "str" THEN PyStr(lower(x.s)) ELSE x

\* the remap_ arguments of analysis_apply_conversion: the dict
\* {'a': 'B', 'TBD': np.nan}, logged, and the function str.lower, not logged
RemapArgs ==
    {[kind |-> "dict",
      mapping |-> (PyStr("a") :> PyStr("B")) @@ (PyStr("TBD") :> NaN),
      command_name |-> "merge", loggable |-> TRUE],
     [kind |-> "function", mapping |-> <<>>,
      command_name |-> "lower", loggable |-> FALSE]}

\* the other columns of the frame handed to analysis_drop_infrequent, each
\* as the rows in which it is not null: one column without nulls, or one
\* column that is null in the first row
OtherColumns(n) == {<<[i \in 1..n |-> TRUE]>>, <<[i \in 1..n |-> i # 1]>>}

\* the update arguments of update_question: the question itself, a dict
\* with new units and a log, and a dict for a name the dictionary lacks
UpdateArgs(self) ==
    {self,
     [name |-> self.name, units |-> "cm",
      log |-> <<[timestamp |-> 0, column |-> self.name,
                 command |-> "imported", transform_type |-> "recording",
                 transformation |-> ""]>>],
     [name |-> "other"]}

\* the cells of the columns the transformations are applied to
AnalysisCells(dtype) ==
    {NaN} \cup
    CASE dtype = "str" -> Strs({"a", "TBD"})
      [] dtype = "bool" -> Strs({"TBD"}) \cup {PyBool(TRUE)}
      [] OTHER -> {PyInt(1), PyInt(3)}

\* two str schemas (one as constructed, with a repeated value in its list),
\* two int schemas, with a label table and with none, a Bool and a Continous
\* schema
AnalysisSchemas ==
    {[BaseQuestion EXCEPT
        !.type = "Categorical", !.name = "position", !.dtype = "str",
        !.order = <<PyStr("a"), PyStr("B"), PyStr("TBD")>>,
        !.missing = Strs({"TBD"}), !.ambiguous = Nothing,
        !.frequency_cutoff = PyInt(1),
        !.name_mapping = Nothing, !.numeric_mapping = Nothing],
     [BaseQuestion EXCEPT
        !.type = "Categorical", !.name = "position", !.dtype = "str",
        !.order = <<PyStr("TBD"), PyStr("a"), PyStr("TBD"), PyStr("B")>>,
        !.missing = Strs({"TBD"}), !.ambiguous = Some(Strs({"TBD"}))],
     [BaseQuestion EXCEPT
        !.type = "Categorical", !.name = "years_on_team", !.dtype = "int",
        !.order = <<PyInt(1), PyInt(3)>>, !.ambiguous = Nothing,
        !.frequency_cutoff = PyInt(1),
        !.name_mapping = Some(CodeLabels), !.numeric_mapping = Nothing],
     [BaseQuestion EXCEPT
        !.type = "Categorical", !.name = "years_on_team", !.dtype = "int",
        !.order = <<PyInt(1), PyInt(3)>>, !.ambiguous = Nothing,
        !.name_mapping = Nothing, !.numeric_mapping = Nothing],
     [BaseQuestion EXCEPT
        !.type = "Bool", !.name = "team_captain", !.dtype = "bool",
        !.order = OrderFor("bool"), !.ambiguous = Some(Strs({"TBD"}))],
     [BaseQuestion EXCEPT
        !.type = "Continous", !.name = "years_on_team", !.dtype = "int",
        !.units = "years", !.outlier_upper = PyInt(3)]}

InitAnalysis ==
    /\ q \in AnalysisSchemas
    /\ map_ \in SeqsUpTo(AnalysisCells(q.dtype), MaxLen)
    /\ clock = 0
    /\ last = Uncalled
    /\ prev = Uncalled
    /\ dlog = <<>>

\* analysis_apply_conversion(map_, remap_, command_name, loggable)
ApplyConversion ==
    /\ last.n < MaxCalls
    /\ q.type \in {"Categorical", "Bool"}
    /\ \E a \in RemapArgs :
         LET r == IF a.kind = "dict"
                  THEN analysis_apply_conversion_dict(
                           q, map_, a.mapping, a.command_name, a.loggable,
                           clock)
                  ELSE analysis_apply_conversion(
                           q, map_,
                           [x \in Values(map_) \cup Values(q.order) |->
                               str_lower(x)],
                           a.command_name, a.loggable, clock)
         IN  /\ q' = [q EXCEPT !.log = r.log, !.order = r.order]
             /\ map_' = r.series
             /\ clock' = clock + 1
             /\ last' = [Call("analysis_apply_conversion",
                              [exc |-> "none", at |-> "end"])
                         EXCEPT !.arg = Some(a)]
    /\ prev' = last
    /\ UNCHANGED dlog

\* analysis_convert_to_numeric(map_)
ConvertToNumeric ==
    /\ last.n < MaxCalls
    /\ q.type \in {"Categorical", "Bool"}
    /\ LET r == analysis_convert_to_numeric(q, map_, clock)
       IN  /\ q' = [q EXCEPT !.log = r.log, !.order = r.order,
                             !.numeric_mapping = r.numeric_mapping,
                             !.name_mapping = r.name_mapping]
           /\ map_' = r.series
           /\ clock' = clock + 1
           /\ last' = Call("analysis_convert_to_numeric", r)
    /\ prev' = last
    /\ UNCHANGED dlog

\* analysis_drop_infrequent(map_)
DropInfrequent ==
    /\ last.n < MaxCalls
    /\ q.type \in {"Categorical", "Bool"}
    /\ \E others \in OtherColumns(Len(map_)) :
         LET r == analysis_drop_infrequent(q, map_, others, clock)
         IN  /\ q' = [q EXCEPT !.log = r.log, !.order = r.order]
             /\ map_' = r.series
             /\ clock' = clock + 1
             /\ last' = [Call("analysis_drop_infrequent", r)
                         EXCEPT !.arg = Some(others)]
    /\ prev' = last
    /\ UNCHANGED dlog

\* analysis_remap_null(map_)
RemapNull ==
    /\ last.n < MaxCalls
    /\ q.type \in {"Categorical", "Bool"}
    /\ LET r == analysis_remap_null(q, map_, clock)
       IN  /\ q' = [q EXCEPT !.log = r.log, !.order = r.order]
           /\ map_' = r.series
           /\ clock' = clock + 1
           /\ last' = Call("analysis_remap_null", r)
    /\ prev' = last
    /\ UNCHANGED dlog

\* analyis_remove_ambiguous(map_)
RemoveAmbiguous ==
    /\ last.n < MaxCalls
    /\ q.type \in {"Categorical", "Bool"}
    /\ LET r == analyis_remove_ambiguous(q, map_, clock)
       IN  /\ q' = [q EXCEPT !.log = r.log, !.order = r.order]
           /\ map_' = r.series
           /\ clock' = clock + 1
           /\ last' = Call("analyis_remove_ambiguous", r)
    /\ prev' = last
    /\ UNCHANGED dlog

\* write_provenance()
WriteProvenance ==
    /\ last.n < MaxCalls
    /\ LET r == write_provenance(q, clock)
       IN  /\ q' = [q EXCEPT !.log = r.log]
           /\ clock' = clock + 1
           /\ last' = Call("write_provenance", r)
    /\ prev' = last
    /\ UNCHANGED map_
    /\ UNCHANGED dlog

\* DataDictionary.update_question(update)
UpdateQuestion ==
    /\ last.n < MaxCalls
    /\ \E update \in UpdateArgs(q) :
         LET r == update_question(q, dlog, update, clock)
         IN  /\ q' = r.question
             /\ dlog' = r.dlog
             /\ clock' = clock + 1
             /\ last' = [Call("update_question", r)
                         EXCEPT !.arg = Some(update)]
    /\ prev' = last
    /\ UNCHANGED map_

NextAnalysis ==
    \/ Validate
    \/ RemapDtype
    \/ ConvertToLabel
    \/ ConvertToWord
    \/ UpdateOutliers
    \/ ApplyConversion
    \/ ConvertToNumeric
    \/ DropInfrequent
    \/ RemapNull
    \/ RemoveAmbiguous
    \/ WriteProvenance
    \/ UpdateQuestion

SpecAnalysis == InitAnalysis /\ [][NextAnalysis]_vars

-----------------------------------------------------------------------------
(* Claims about the log and the transformations *)

\* s is a prefix of t
IsPrefix(s, t) == Len(s) <= Len(t) /\ SubSeq(t, 1, Len(s)) = s

\* C11: the log of a schema is append-only: in every step of every
\* operation the log before is a prefix of the log after; no entry is edited,
\* removed or reordered.
C11_AppendOnly == [][IsPrefix(q.log, q'.log)]_vars

\* update_question has extended a log that a transformation wrote to
C11_Witness ==
    /\ last.op = "update_question" /\ last.exc = "none"
    /\ prev.op = "analysis_remap_null"
    /\ last.before = 1 /\ Len(q.log) = 2
    /\ q.log[1].command = "correct null values"
    /\ q.log[2].command = "imported"

\* the operations that transform the column and the admissible list
TransformOps ==
    {"analysis_apply_conversion", "analyis_remove_ambiguous",
     "analysis_drop_infrequent", "analysis_remap_null",
     "analysis_convert_to_numeric", "analysis_convert_to_label",
     "analysis_remap_dtype"}

\* the last call changed the column or the admissible list
Changed == map_ # last.series \/ q.order # last.order

\* what the remap_ argument a of analysis_apply_conversion makes of x
Image(a, x) ==
    IF a.kind = "dict"
    THEN IF \E k \in DOMAIN a.mapping : PyEq(k, x)
         THEN a.mapping[CHOOSE k \in DOMAIN a.mapping : PyEq(k, x)]
         ELSE x
    ELSE str_lower(x)

\* C12: a transformation that changes the column or the admissible list
\* appends exactly one entry to the log; for analysis_apply_conversion the
\* entry lists 'old >>> new' for every value of the admissible list as it
\* was before the call, in that order, joined by ' | '.
C12_OneEntryPerTransformation ==
    (last.op \in TransformOps /\ Changed) =>
        /\ Len(Appended) = 1
        /\ last.op = "analysis_apply_conversion" =>
              Appended[1].transformation =
                 join(" | ",
                      [i \in 1..Len(last.order) |->
                          Format(last.order[i]) \o " >>> "
                          \o Format(Image(last.arg.v, last.order[i]))])

\* the number of cells of the column that held g before the last call
Occurrences(g) ==
    Cardinality({i \in 1..Len(last.series) : PyEq(last.series[i], g)})

\* C13: after analysis_drop_infrequent with cutoff c, an admissible value
\* that occurred in the column at most c times (or not at all) is gone from
\* the admissible list and its cells are null; a value that occurred more
\* than c times keeps its cells and its relative position in the list.
C13_DropInfrequent ==
    (last.op = "analysis_drop_infrequent"
     /\ q.frequency_cutoff.t # "None") =>
        LET c == q.frequency_cutoff.h \div 2
            frequent(g) == Occurrences(g) > c
        IN  /\ \A g \in Values(last.order) :
                  ~frequent(g) => ~PyIn(g, Values(q.order))
            /\ \A i \in 1..Len(map_) :
                  IF PyIn(last.series[i], Values(last.order))
                     /\ ~frequent(last.series[i])
                  THEN isnull(map_[i])
                  ELSE map_[i] = last.series[i]
            /\ q.order = first_seen(<<>>, SelectSeq(last.order, frequent))

\* C14: after analysis_remap_null every cell that was equal to a missing
\* placeholder is null and every other cell is unchanged; no missing
\* placeholder is left in the admissible list, whose other values keep
\* their order.
C14_RemapNull ==
    last.op = "analysis_remap_null" =>
        /\ \A i \in 1..Len(map_) :
              IF PyIn(last.series[i], q.missing) THEN isnull(map_[i])
              ELSE map_[i] = last.series[i]
        /\ \A m \in q.missing : ~PyIn(m, Values(q.order))
        /\ q.order = SelectSeq(last.order, LAMBDA o : ~PyIn(o, q.missing))

C16_NoLabelTable ==
    (last.op = "analysis_convert_to_label" /\ ~q.name_mapping.some) =>
        /\ last.exc = "ValueError"
        /\ map_ = last.series
        /\ q.order = last.order
        /\ Len(Appended) = 1
        /\ Appended[1].transform_type = "error"

\* the last call was analysis_apply_conversion with a dict
TableCall ==
    /\ last.op = "analysis_apply_conversion"
    /\ last.arg.v.kind = "dict"

C17_WitnessNoKey ==
    /\ TableCall
    /\ last.series = <<PyInt(1), PyInt(3)>> /\ map_ = last.series
    /\ q.order = <<PyInt(1), PyInt(3)>>

-----------------------------------------------------------------------------
(* The constructors *)

\* a Python class (str, int, list, ValueError) as a value
PyClass(n) == [t |-> "type", s |-> n, h |-> 0]

\* the items of a set in the order iteration gives them
SetToSeq(S) == CHOOSE s \in [1..Cardinality(S) -> S] : Values(s) = S

\* the arguments of a call, by keyword: a scalar, a list, a set or a dict,
\* each with its items in a sequence (a dict as key, value, key, value)
Scalar(v) == [k |-> "scalar", v |-> <<v>>]
ListOf(s) == [k |-> "list", v |-> s]
SetOf(S) == [k |-> "set", v |-> SetToSeq(S)]
DictOf(f) ==
    [k |-> "dict",
     v |-> LET keys == SetToSeq(DOMAIN f)
           IN  [i \in 1..(Len(keys) + Len(keys)) |->
                  IF i % 2 = 1 THEN keys[(i + 1) \div 2]
                  ELSE f[keys[i \div 2]]]]

\* what an argument holds
Val(a) == a.v[1]
SetIn(a) == Values(a.v)
DictIn(a) ==
    [key \in {a.v[i] : i \in {j \in 1..Len(a.v) : j % 2 = 1}} |->
       a.v[1 + CHOOSE i \in 1..Len(a.v) : i % 2 = 1 /\ a.v[i] = key]]

\* the argument under key, None when the call does not give it
Arg(kwargs, key) ==
    IF key \in DOMAIN kwargs THEN kwargs[key] ELSE Scalar(PyNone)

IsStr(a) == a.k = "scalar" /\ Val(a).t = "str"
IsNone(a) == a.k = "scalar" /\ Val(a).t = "None"

\* the arguments without the keys in keys
Without(kwargs, keys) == [key \in DOMAIN kwargs \ keys |-> kwargs[key]]

\* name.replace('_', ' ').title(), for the names of the model
title(name) ==
    CASE name = "position" -> "Position"
      [] name = "team_captain" -> "Team Captain"
      [] name = "years_on_team" -> "Years On Team"
      [] name = "player_name" -> "Player Name"
      [] OTHER -> name

\* ebi_null, the default of missing (two of its seven members)
ebi_null == Strs({"not applicable", "not provided"})

\* Question.__init__(name, description, dtype, ..., **other_properties);
\* the parameters the model gives no field to are stored as given, and
\* none of them is given in the model
Question_init(kwargs) ==
    LET name == Arg(kwargs, "name")
        description == Arg(kwargs, "description")
        dtype == Arg(kwargs, "dtype")
        clean_name == Arg(kwargs, "clean_name")
        missing == Arg(kwargs, "missing")
        blanks == Arg(kwargs, "blanks")
        free_response == Arg(kwargs, "free_response")
        raise(exc, at) == [exc |-> exc, at |-> at, question |-> NoQuestion]
    IN  IF ~({"name", "description", "dtype"} \subseteq DOMAIN kwargs)
        THEN raise("TypeError", "arguments")
        ELSE IF ~IsStr(name) THEN raise("TypeError", "name")
        ELSE IF ~IsStr(description) THEN raise("TypeError", "description")
        ELSE IF Len(Val(description).s) > 80
        THEN raise("ValueError", "description")
        ELSE IF ~(dtype.k = "scalar" /\ Val(dtype).t = "type")
        THEN raise("TypeError", "dtype")
        ELSE IF ~IsStr(clean_name) /\ ~IsNone(clean_name)
        THEN raise("TypeError", "clean_name")
        ELSE IF missing.k = "scalar" /\ Val(missing).t \notin {"None", "str"}
        THEN raise("TypeError", "missing")
        ELSE [exc |-> "none", at |-> "end",
              question |->
                [BaseQuestion EXCEPT
                   !.name = Val(name).s,
                   !.description = Val(description).s,
                   !.dtype = Val(dtype).s,
                   !.clean_name = IF IsNone(clean_name)
                                  THEN title(Val(name).s)
                                  ELSE Val(clean_name).s,
                   !.free_response =
                       "free_response" \in DOMAIN kwargs
                       /\ Val(free_response) = PyBool(TRUE),
                   !.missing = IF IsNone(missing) THEN ebi_null
                               ELSE IF IsStr(missing)
                               THEN {Val(missing)}
                               ELSE SetIn(missing),
                   !.blanks = IF IsNone(blanks) THEN Nothing
                              ELSE Some(SetIn(blanks)),
                   !.other =
                       Without(kwargs,
                           {"name", "description", "dtype", "clean_name",
                            "question", "format", "free_response",
                            "mimarks", "ontology", "missing", "blanks",
                            "colormap", "original_name", "source_columns",
                            "derivative_columns", "notes"})]]

\* the classes a Categorical may declare
CategoricalDtypes == {"str", "bool", "int", "float", "tuple"}

\* Categorical.__init__(name, description, dtype, order, ..., **kwargs)
Categorical_init(kwargs) ==
    LET dtype == Arg(kwargs, "dtype")
        ambiguous == Arg(kwargs, "ambiguous")
        raise(exc, at) == [exc |-> exc, at |-> at, question |-> NoQuestion]
        base == Question_init(
                    Without(kwargs,
                        {"order", "reference_val", "ambiguous",
                         "frequency_cutoff", "numeric_mapping", "ordinal",
                         "code_delim"}))
    IN  IF ~({"name", "description", "dtype", "order"} \subseteq
                DOMAIN kwargs)
        THEN raise("TypeError", "arguments")
        ELSE IF dtype.k # "scalar" \/ Val(dtype).t = "list"
        THEN raise("TypeError", "dtype")
        ELSE IF ~(Val(dtype).t = "type" /\ Val(dtype).s \in CategoricalDtypes)
        THEN raise("ValueError", "dtype")
        ELSE IF base.exc # "none" THEN base
        ELSE IF IsStr(ambiguous) THEN raise("NameError", "var_delimiter")
        ELSE IF ambiguous.k = "scalar" /\ ~IsNone(ambiguous)
        THEN raise("TypeError", "ambiguous")
        ELSE [exc |-> "none", at |-> "end",
              question |->
                [base.question EXCEPT
                   !.type = "Categorical",
                   !.order = kwargs["order"].v,
                   !.ref_val = Val(Arg(kwargs, "reference_val")),
                   !.frequency_cutoff =
                       Val(Arg(kwargs, "frequency_cutoff")),
                   !.ambiguous = IF IsNone(ambiguous) THEN Nothing
                                 ELSE Some(SetIn(ambiguous)),
                   !.other = Without(base.question.other,
                                 {"order", "ref_val", "frequency_cutoff",
                                  "ambiguous", "type"})]]

\* Bool.__init__(name, description, clean_name, bool_format, ...)
Bool_init(kwargs) ==
    LET bool_format == Arg(kwargs, "bool_format")
        format == IF IsNone(bool_format)
                  THEN <<PyStr("true"), PyStr("false")>>
                  ELSE <<bool_format.v[1], bool_format.v[2]>>
        made == Categorical_init(
                    Without(kwargs, {"bool_format"})
                    @@ [dtype |-> Scalar(PyClass("bool")),
                        order |-> ListOf(format),
                        extremes |-> ListOf(format)])
    IN  IF ~(DOMAIN kwargs \subseteq
                {"name", "description", "clean_name", "bool_format",
                 "ambiguous", "mimarks", "ontology", "missing", "blanks",
                 "colormap"})
           \/ ~({"name", "description"} \subseteq DOMAIN kwargs)
        THEN [exc |-> "TypeError", at |-> "arguments",
              question |-> NoQuestion]
        ELSE IF made.exc # "none" THEN made
        ELSE [made EXCEPT !.question.type = "Bool"]

\* Continous.__init__(name, description, units, dtype=float, limits, ...)
Continous_init(kwargs) ==
    LET made == Question_init(
                    Without(kwargs, {"units", "limits", "outliers",
                                     "sig_figs", "magnitude"})
                    @@ [dtype |-> Scalar(PyClass("float"))])
        o == _check_limits(IF IsNone(Arg(kwargs, "outliers")) THEN Nothing
                           ELSE Some(kwargs["outliers"].v))
        a == _check_limits(IF IsNone(Arg(kwargs, "limits")) THEN Nothing
                           ELSE Some(kwargs["limits"].v))
        raise(exc, at) == [exc |-> exc, at |-> at, question |-> NoQuestion]
    IN  IF ~(DOMAIN kwargs \subseteq
                {"name", "description", "units", "dtype", "limits",
                 "outliers", "sig_figs", "magnitude", "clean_name",
                 "mimarks", "ontology", "missing", "blanks", "colormap"})
           \/ ~({"name", "description", "units"} \subseteq DOMAIN kwargs)
        THEN raise("TypeError", "arguments")
        ELSE IF made.exc # "none" THEN made
        ELSE IF o.exc # "none" THEN raise(o.exc, "outliers")
        ELSE IF a.exc # "none" THEN raise(a.exc, "limits")
        ELSE [exc |-> "none", at |-> "end",
              question |->
                [made.question EXCEPT
                   !.type = "Continous",
                   !.units = Val(kwargs["units"]).s,
                   !.bound_lower = a.lower, !.bound_upper = a.upper,
                   !.outlier_lower = o.lower, !.outlier_upper = o.upper]]

\* cls(**kwargs) for the class named cls
New(cls, kwargs) ==
    CASE cls = "Categorical" -> Categorical_init(kwargs)
      [] cls = "Bool" -> Bool_init(kwargs)
      [] cls = "Continous" -> Continous_init(kwargs)
      [] OTHER -> Question_init(kwargs)

-----------------------------------------------------------------------------
(* Question._to_series, Continous._to_series and Question._read_series *)

\* A text of the flat record is the sequence of its pieces: the delimiters
\* and the texts between them.  No str of the model holds a delimiter.
var_delim == " | "
code_delim == "="
null_value == "None"

RECURSIVE Text(_)
\* the str that the pieces make
Text(pieces) ==
    IF pieces = <<>> THEN "" ELSE Head(pieces) \o Text(Tail(pieces))

\* var_str_format.get(self.dtype, '%s')
var_str_format(dtype) ==
    CASE dtype = "int" -> "%i"
      [] dtype = "float" -> "%1.5f"
      [] OTHER -> "%s"

\* var_str % x: [ok, s]; ok is FALSE when the format raises TypeError
Percent(var_str, x) ==
    CASE var_str = "%i" ->
            IF x.t \in Numeric
            THEN [ok |-> TRUE, s |-> ToString(x.h \div 2)]
            ELSE [ok |-> FALSE, s |-> ""]
      [] var_str = "%1.5f" ->
            IF x.t \in Numeric
            THEN [ok |-> TRUE,
                  s |-> ToString(x.h \div 2)
                        \o (IF x.h % 2 = 0 THEN ".00000" ELSE ".50000")]
            ELSE [ok |-> FALSE, s |-> ""]
      [] OTHER -> [ok |-> TRUE, s |-> Format(x)]

\* _to_str(x) of _iterable_to_str
_to_str(var_str, x) ==
    IF isnull(x) THEN [ok |-> TRUE, s |-> null_value]
    ELSE Percent(var_str, x)

RECURSIVE Joined(_, _)
\* var_delim.join(items), as pieces; items is a sequence of texts
Joined(delim, items) ==
    IF items = <<>> THEN <<>>
    ELSE IF Len(items) = 1 THEN items[1]
    ELSE items[1] \o <<delim>> \o Joined(delim, Tail(items))

\* str(val_).replace("<class '", '').replace("'>", "")
str_scalar(x) == IF x.t = "type" THEN x.s ELSE Format(x)

\* Question._iterable_to_str(val_, ...): [ok, text]
_iterable_to_str(val_, var_str) ==
    LET items == val_.v
        keys == SetToSeq(DOMAIN DictIn(val_))
    IN  CASE val_.k \in {"list", "set"} ->
               IF items = <<>> THEN [ok |-> TRUE, text |-> <<null_value>>]
               ELSE IF \E i \in 1..Len(items) :
                          ~_to_str(var_str, items[i]).ok
               THEN [ok |-> FALSE, text |-> <<>>]
               ELSE [ok |-> TRUE,
                     text |-> Joined(var_delim,
                                 [i \in 1..Len(items) |->
                                    <<_to_str(var_str, items[i]).s>>])]
          [] val_.k = "dict" ->
               IF keys = <<>> THEN [ok |-> TRUE, text |-> <<null_value>>]
               ELSE IF \E i \in 1..Len(keys) :
                          ~Percent(var_str, keys[i]).ok
               THEN [ok |-> FALSE, text |-> <<>>]
               ELSE [ok |-> TRUE,
                     text |-> Joined(var_delim,
                                 [i \in 1..Len(keys) |->
                                    <<Percent(var_str, keys[i]).s,
                                      code_delim,
                                      Format(DictIn(val_)[keys[i]])>>])]
          [] OTHER ->
               IF Val(val_).t = "None"
               THEN [ok |-> TRUE, text |-> <<null_value>>]
               ELSE [ok |-> TRUE, text |-> <<str_scalar(Val(val_))>>]

\* an optional attribute that holds a set, as a value
OptionalSet(a) == IF a.some THEN SetOf(a.v) ELSE Scalar(PyNone)

\* self.__dict__: the attributes the object has, by name
Dict(self) ==
    [name |-> Scalar(PyStr(self.name)),
     description |-> Scalar(PyStr(self.description)),
     dtype |-> Scalar(PyClass(self.dtype)),
     type |-> Scalar(PyStr(self.type)),
     clean_name |-> Scalar(PyStr(self.clean_name)),
     free_response |-> Scalar(PyBool(self.free_response)),
     missing |-> SetOf(self.missing),
     blanks |-> OptionalSet(self.blanks)]
    @@ (IF self.type \in {"Categorical", "Bool"}
        THEN [order |-> ListOf(self.order),
              ref_val |-> Scalar(self.ref_val),
              frequency_cutoff |-> Scalar(self.frequency_cutoff),
              ambiguous |-> OptionalSet(self.ambiguous)]
        ELSE <<>>)
    @@ (IF self.name_mapping.attr
        THEN [name_mapping |-> IF self.name_mapping.some
                               THEN DictOf(self.name_mapping.v)
                               ELSE Scalar(PyNone)]
        ELSE <<>>)
    @@ (IF self.numeric_mapping.attr
        THEN [numeric_mapping |-> IF self.numeric_mapping.some
                                  THEN DictOf(self.numeric_mapping.v)
                                  ELSE Scalar(PyNone)]
        ELSE <<>>)
    @@ (IF self.type = "Continous"
        THEN [units |-> Scalar(PyStr(self.units)),
              bound_lower |-> Scalar(self.bound_lower),
              bound_upper |-> Scalar(self.bound_upper),
              outlier_lower |-> Scalar(self.outlier_lower),
              outlier_upper |-> Scalar(self.outlier_upper)]
        ELSE <<>>)
    @@ self.other

\* self.defaults[k] == v, for the defaults an attribute of the model has
IsDefault(k, v) ==
    \/ k = "missing" /\ v.k = "set" /\ SetIn(v) = ebi_null
    \/ k = "free_response" /\ v.k = "scalar"
          /\ PyEq(Val(v), PyBool(FALSE))

\* Question._to_series(): [exc, at, series]; series maps the names of the
\* attributes that are written to their texts
Question_to_series(self) ==
    LET d == Dict(self)
        kept == {k \in DOMAIN d :
                    /\ k # "log"
                    /\ ~(d[k].k = "scalar" /\ Val(d[k]).t = "None")
                    /\ ~(d[k].k \in {"list", "set", "dict"}
                         /\ d[k].v = <<>>)
                    /\ ~IsDefault(k, d[k])}
        var_str == var_str_format(self.dtype)
    IN  IF \E k \in kept : ~_iterable_to_str(d[k], var_str).ok
        THEN [exc |-> "TypeError", at |-> "_to_str", series |-> <<>>]
        ELSE [exc |-> "none", at |-> "end",
              series |-> [k \in kept |->
                            _iterable_to_str(d[k], var_str).text]]

\* _format_value(v) of Continous._to_series: [ok, text]; no Continous of the
\* model holds a dict
_format_value(v) ==
    LET items == v.v
    IN  IF v.k \in {"list", "set"}
        THEN IF \E i \in 1..Len(items) : items[i].t # "str"
             THEN [ok |-> FALSE, text |-> <<>>]
             ELSE [ok |-> TRUE,
                   text |-> Joined(var_delim,
                               [i \in 1..Len(items) |-> <<items[i].s>>])]
        ELSE [ok |-> TRUE, text |-> <<str_scalar(Val(v))>>]

\* Continous._to_series()
Continous_to_series(self) ==
    LET d == Dict(self)
        kept == {k \in DOMAIN d :
                    /\ k \notin {"log", "bound_lower", "bound_upper",
                                 "outlier_lower", "outlier_upper"}
                    /\ ~(d[k].k = "scalar" /\ Val(d[k]).t = "None")
                    /\ ~(d[k].k = "list" /\ d[k].v = <<>>)
                    /\ ~IsDefault(k, d[k])}
        pair(lo, up) == <<Format(lo), var_delim, Format(up)>>
        limits == IF self.bound_lower.t # "None"
                     \/ self.bound_upper.t # "None"
                  THEN [order |->
                          pair(self.bound_lower, self.bound_upper)]
                  ELSE <<>>
        outliers == IF self.outlier_lower.t # "None"
                       \/ self.outlier_upper.t # "None"
                    THEN [ambiguous |->
                            pair(self.outlier_lower, self.outlier_upper)]
                    ELSE <<>>
    IN  IF \E k \in kept : ~_format_value(d[k]).ok
        THEN [exc |-> "TypeError", at |-> "_format_value",
              series |-> <<>>]
        ELSE [exc |-> "none", at |-> "end",
              series |-> outliers @@ limits
                         @@ [k \in kept |-> _format_value(d[k]).text]]

\* self._to_series(), by the class of self
_to_series(self) ==
    IF self.type = "Continous" THEN Continous_to_series(self)
    ELSE Question_to_series(self)

RECURSIVE Split(_, _)
\* val_.split(delim): the texts between the delimiters
Split(text, delim) ==
    IF \A i \in 1..Len(text) : text[i] # delim THEN <<text>>
    ELSE LET at == CHOOSE i \in 1..Len(text) :
                      /\ text[i] = delim
                      /\ \A j \in 1..(i - 1) : text[j] # delim
         IN  <<SubSeq(text, 1, at - 1)>>
             \o Split(SubSeq(text, at + 1, Len(text)), delim)

\* pydoc.locate(name) for the names of builtins; None for any other name
locate(name) ==
    CASE name \in {"str", "int", "float", "bool", "tuple", "list",
                   "ValueError"} -> PyClass(name)
      [] name = "True" -> PyBool(TRUE)
      [] name = "False" -> PyBool(FALSE)
      [] OTHER -> PyNone

\* str.title() for the texts of the model
str_title(s) ==
    CASE s = "true" -> "True"
      [] s = "false" -> "False"
      [] s = "TBD" -> "Tbd"
      [] s = "tbd" -> "Tbd"
      [] s = "yes" -> "Yes"
      [] s = "no" -> "No"
      [] OTHER -> s

\* var_type(x) for a str x: [ok, v, exc]
var_type(dtype_, x) ==
    CASE dtype_.t # "type" -> [ok |-> FALSE, v |-> PyNone, exc |-> "TypeError"]
      [] dtype_.s = "bool" ->
            [ok |-> TRUE, v |-> PyBool(x # ""), exc |-> "none"]
      [] dtype_.s \in {"str", "int", "float"} ->
            [ok |-> Construct(dtype_.s, PyStr(x)).ok,
             v |-> Construct(dtype_.s, PyStr(x)).v, exc |-> "ValueError"]
      [] OTHER -> [ok |-> FALSE, v |-> PyNone, exc |-> "TypeError"]

\* Question._iterable_from_str(val_, var_type=dtype_, return_type, ...):
\* [exc, value]; value is None, a dict, or a list or set by return_type
_iterable_from_str(val_, dtype_, return_type) ==
    LET parts == Split(val_, var_delim)
        key(i) == var_type(dtype_, Text(Split(parts[i], code_delim)[1]))
        code(i) == PyStr(Text(Split(parts[i], code_delim)[2]))
        item(i) == IF Text(parts[i]) = null_value
                   THEN [ok |-> TRUE, v |-> PyNone, exc |-> "none"]
                   ELSE var_type(dtype_, Text(parts[i]))
        n == Len(parts)
    IN  IF val_ = <<null_value>>
        THEN [exc |-> "none", value |-> Scalar(PyNone)]
        ELSE IF \E i \in 1..Len(val_) : val_[i] = code_delim
        THEN IF \E i \in 1..n : Len(Split(parts[i], code_delim)) < 2
             THEN [exc |-> "IndexError", value |-> Scalar(PyNone)]
             ELSE IF \E i \in 1..n : ~key(i).ok
             THEN [exc |-> (key(CHOOSE i \in 1..n : ~key(i).ok)).exc,
                   value |-> Scalar(PyNone)]
             ELSE [exc |-> "none",
                   value |-> DictOf([k \in {key(i).v : i \in 1..n} |->
                                code(CHOOSE i \in 1..n :
                                        /\ key(i).v = k
                                        /\ \A j \in (i + 1)..n :
                                              key(j).v # k)])]
        ELSE IF \E i \in 1..n : ~item(i).ok
        THEN [exc |-> (item(CHOOSE i \in 1..n : ~item(i).ok)).exc,
              value |-> Scalar(PyNone)]
        ELSE [exc |-> "none",
              value |-> IF return_type = "list"
                        THEN ListOf([i \in 1..n |-> item(i).v])
                        ELSE SetOf({item(i).v : i \in 1..n})]

\* _handle_col(k, v) of _read_series: [exc, value]; the sets of names are
\* properties_num, properties_bin and properties_set of _defaults.py
_handle_col(dtype_, k, v) ==
    LET done(value) == [exc |-> "none", value |-> value]
        as_str == _iterable_from_str(v, PyClass("str"), "list")
        titled == [i \in 1..Len(as_str.value.v) |->
                     locate(str_title(as_str.value.v[i].s))]
        as_float == Construct("float", PyStr(Text(v)))
    IN  IF v = <<null_value>> THEN done(Scalar(PyNone))
        ELSE IF k = "dtype" THEN done(Scalar(dtype_))
        ELSE IF k = "ref_value" /\ dtype_ = PyClass("bool")
        THEN done(Scalar(locate(str_title(Text(v)))))
        ELSE IF k = "ref_value"
        THEN IF var_type(dtype_, Text(v)).ok
             THEN done(Scalar(var_type(dtype_, Text(v)).v))
             ELSE [exc |-> var_type(dtype_, Text(v)).exc,
                   value |-> Scalar(PyNone)]
        ELSE IF k \in {"order", "limits"} /\ dtype_ = PyClass("bool")
        THEN IF as_str.exc # "none" THEN as_str
             ELSE IF as_str.value.k = "dict"
             THEN [exc |-> "AttributeError", value |-> Scalar(PyNone)]
             ELSE IF \E i \in 1..Len(as_str.value.v) :
                        as_str.value.v[i].t = "None"
             THEN [exc |-> "AttributeError", value |-> Scalar(PyNone)]
             ELSE done(ListOf(titled))
        ELSE IF k \in {"order", "limits"}
        THEN _iterable_from_str(v, dtype_, "list")
        ELSE IF k \in {"frequency_cutoff", "sig_figs", "magnitude"}
        THEN IF as_float.ok THEN done(Scalar(as_float.v))
             ELSE [exc |-> "ValueError", value |-> Scalar(PyNone)]
        ELSE IF k \in {"free_response", "mimarks", "ordinal"}
        THEN done(Scalar(locate(str_title(Text(v)))))
        ELSE IF k \in {"source_columns", "ontology", "derivative_columns",
                        "blanks", "ambigious"}
        THEN _iterable_from_str(v, dtype_, "set")
        ELSE done(Scalar(PyStr(Text(v))))

\* the end of _read_series for an order read as a dict part_: its keys
\* become the order and the dict itself var_labels
read_coded(cls, dtype_, dict_, part_, labels) ==
    LET relabelled == [i \in 1..Len(labels) |->
                         var_type(dtype_, Format(labels[i]))]
    IN  IF \E i \in 1..Len(labels) : ~relabelled[i].ok
        THEN [exc |-> "ValueError", at |-> "order",
              question |-> NoQuestion]
        ELSE CHOOSE r \in
                 {New(cls, d) :
                    d \in {[var_labels |-> DictOf(part_),
                            order |-> ListOf([i \in 1..Len(labels) |->
                                                relabelled[i].v])]
                           @@ dict_}} : TRUE

\* the end of _read_series, from the columns col that _handle_col read
read_columns(cls, dtype_, col) ==
    LET kept == DOMAIN col
    IN  IF \E k \in kept : col[k].exc # "none"
        THEN [exc |-> col[CHOOSE k \in kept : col[k].exc # "none"].exc,
              at |-> "_handle_col", question |-> NoQuestion]
        ELSE IF "order" \in kept /\ col["order"].value.k = "dict"
        THEN CHOOSE r \in
                 {read_coded(cls, dtype_, d, part_, SetToSeq(DOMAIN part_)) :
                    d \in {[k \in kept |-> col[k].value]},
                    part_ \in {DictIn(col["order"].value)}} : TRUE
        ELSE CHOOSE r \in
                 {New(cls, d) : d \in {[k \in kept |-> col[k].value]}} :
                 TRUE

\* cls._read_series(var_): [exc, at, question]; var_ maps names to texts
_read_series(cls, var_) ==
    IF "dtype" \notin DOMAIN var_ \ {"type"}
    THEN [exc |-> "KeyError", at |-> "dtype", question |-> NoQuestion]
    ELSE CHOOSE r \in
             {read_columns(cls, dtype_,
                  [k \in DOMAIN var_ \ {"type"} |->
                     _handle_col(dtype_, k, var_[k])]) :
                dtype_ \in {locate(Text(var_["dtype"]))}} : TRUE

-----------------------------------------------------------------------------
(* Schemas from their constructors, written and read back *)

\* the arguments every constructor is given
Named(name) ==
    [name |-> Scalar(PyStr(name)), description |-> Scalar(PyStr("about"))]

\* a set of dicts, each with one more argument from more or without it
With(base, more) == base \cup {m @@ b : m \in more, b \in base}

\* the calls Question(**kwargs) of the model
QuestionArgs ==
    LET base == Named("player_name")
        good == With(With(With(With(
                    {base @@ [dtype |-> Scalar(PyClass(d))] :
                        d \in {"str", "int", "list"}},
                    {[free_response |-> Scalar(PyBool(TRUE))]}),
                    {[clean_name |-> Scalar(PyStr("Name"))]}),
                    {[missing |-> SetOf(Strs({"TBD"}))],
                     [missing |-> SetOf(Strs({"TBD", "a"}))]}),
                    {[school |-> Scalar(PyStr("Samwell"))]})
        bad == {[name |-> Scalar(PyInt(1))],
                [description |-> Scalar(PyInt(1))],
                [dtype |-> Scalar(PyStr("str"))],
                [dtype |-> Scalar(PyInt(1))],
                [clean_name |-> Scalar(PyInt(1))]}
    IN  good \cup {b @@ base @@ [dtype |-> Scalar(PyClass("str"))] :
                      b \in bad}

\* the admissible list given for each declared type
OrderArg(d) ==
    CASE d = "int" -> ListOf(<<PyInt(1), PyInt(3)>>)
      [] d = "bool" -> ListOf(<<PyBool(TRUE), PyBool(FALSE)>>)
      [] OTHER -> ListOf(<<PyStr("a"), PyStr("B")>>)

\* the calls Categorical(**kwargs) of the model
CategoricalArgs ==
    LET base == Named("position")
        typed == {base @@ [dtype |-> Scalar(PyClass(d)),
                           order |-> OrderArg(d)] :
                     d \in {"str", "int", "bool"}}
        good == With(With(With(With(typed,
                    {[ambiguous |-> SetOf(Strs({"TBD"}))],
                     [ambiguous |-> Scalar(PyStr("TBD"))]}),
                    {[reference_val |-> Scalar(b.order.v[1])] :
                        b \in typed}),
                    {[frequency_cutoff |-> Scalar(PyInt(1))]}),
                    {[extremes |-> ListOf(<<PyStr("a"), PyStr("B")>>)]})
        bad == {[dtype |-> Scalar(PyClass("list"))],
                [dtype |-> Scalar(PyClass("ValueError"))],
                [dtype |-> Scalar(PyStr("str"))],
                [dtype |-> Scalar(PyList(""))],
                [dtype |-> Scalar(PyClass("ValueError")),
                 name |-> Scalar(PyInt(1))],
                [name |-> Scalar(PyInt(1)),
                 dtype |-> Scalar(PyClass("str"))]}
    IN  good \cup {b @@ base @@ [order |-> OrderArg("str")] : b \in bad}

\* the calls Bool(**kwargs) of the model
BoolArgs ==
    With(With(With({Named("team_captain")},
        {[bool_format |-> ListOf(<<PyStr("True"), PyStr("False")>>)],
         [bool_format |-> ListOf(<<PyBool(TRUE), PyBool(FALSE)>>)]}),
        {[ambiguous |-> SetOf(Strs({"TBD"}))]}),
        {[missing |-> SetOf(Strs({"TBD"}))],
         [dtype |-> Scalar(PyClass("str"))]})

\* the limits and outliers arguments: None, pairs with an absent side, a
\* pair of equal bounds, an ordered pair and a pair out of order
LimitArgs ==
    {ListOf(<<PyNone, PyInt(2)>>), ListOf(<<PyInt(1), PyNone>>),
     ListOf(<<PyNone, PyNone>>), ListOf(<<PyInt(2), PyInt(2)>>),
     ListOf(<<PyInt(1), PyInt(2)>>), ListOf(<<PyInt(2), PyInt(1)>>)}

\* the calls Continous(**kwargs) of the model
ContinousArgs ==
    With(With(With(With(
        {Named("years_on_team") @@ [units |-> Scalar(PyStr("years"))]},
        {[dtype |-> Scalar(PyClass("int"))],
         [dtype |-> Scalar(PyStr("int"))]}),
        {[limits |-> l] : l \in LimitArgs}),
        {[outliers |-> l] : l \in LimitArgs}),
        {[missing |-> SetOf(Strs({"TBD"}))]})

InitSchema ==
    /\ q = NoQuestion
    /\ map_ = <<>>
    /\ clock = 0
    /\ last = Uncalled
    /\ prev = Uncalled
    /\ dlog = <<>>

\* q = cls(**kwargs), the first call of a run
Construction ==
    /\ q = NoQuestion
    /\ last.op = "none"
    /\ \E cls \in {"Question", "Categorical", "Bool", "Continous"} :
         \E kwargs \in CASE cls = "Categorical" -> CategoricalArgs
                          [] cls = "Bool" -> BoolArgs
                          [] cls = "Continous" -> ContinousArgs
                          [] OTHER -> QuestionArgs :
           LET r == New(cls, kwargs)
           IN  /\ q' = r.question
               /\ last' = [Uncalled EXCEPT
                             !.op = cls, !.exc = r.exc, !.at = r.at,
                             !.arg = Some(kwargs)]
    /\ prev' = last
    /\ UNCHANGED <<map_, clock, dlog>>

\* var_ = q._to_series()
ToSeries ==
    /\ q # NoQuestion
    /\ last.op \notin {"_to_series"}
    /\ LET r == _to_series(q)
       IN  last' = [last EXCEPT
                      !.op = "_to_series", !.exc = r.exc, !.at = r.at,
                      !.arg = Some(r.series)]
    /\ prev' = last
    /\ UNCHANGED <<q, map_, clock, dlog>>

\* new_ = type(q)._read_series(var_)
ReadSeries ==
    /\ last.op = "_to_series"
    /\ last.exc = "none"
    /\ LET r == _read_series(q.type, last.arg.v)
       IN  last' = [last EXCEPT
                      !.op = "_read_series", !.exc = r.exc, !.at = r.at,
                      !.arg = Some(r.question)]
    /\ prev' = last
    /\ UNCHANGED <<q, map_, clock, dlog>>

NextSchema ==
    \/ Construction
    \/ ToSeries
    \/ ReadSeries
    \/ UpdateOutliers

SpecSchema == InitSchema /\ [][NextSchema]_vars

-----------------------------------------------------------------------------
(* Claims about the flat record and the constructors *)

\* two sets of values with the same members, as Python compares them
SameSet(A, B) == (\A x \in A : PyIn(x, B)) /\ (\A x \in B : PyIn(x, A))

\* two optional sets that are both None, both absent, or equal sets
SameOptional(a, b) ==
    /\ a.some = b.some
    /\ a.attr = b.attr
    /\ a.some => SameSet(a.v, b.v)

\* the attributes of a and b are equal as Python compares them, the log
\* left aside
SameAttributes(a, b) ==
    /\ a.type = b.type
    /\ a.name = b.name
    /\ a.dtype = b.dtype
    /\ a.description = b.description
    /\ a.clean_name = b.clean_name
    /\ a.free_response = b.free_response
    /\ a.units = b.units
    /\ Len(a.order) = Len(b.order)
    /\ \A i \in 1..Len(a.order) : i \in 1..Len(b.order) =>
          PyEq(a.order[i], b.order[i])
    /\ SameSet(a.missing, b.missing)
    /\ SameOptional(a.blanks, b.blanks)
    /\ SameOptional(a.ambiguous, b.ambiguous)
    /\ PyEq(a.ref_val, b.ref_val)
    /\ PyEq(a.frequency_cutoff, b.frequency_cutoff)
    /\ PyEq(a.bound_lower, b.bound_lower)
    /\ PyEq(a.bound_upper, b.bound_upper)
    /\ PyEq(a.outlier_lower, b.outlier_lower)
    /\ PyEq(a.outlier_upper, b.outlier_upper)
    /\ a.name_mapping = b.name_mapping
    /\ a.numeric_mapping = b.numeric_mapping
    /\ DOMAIN a.other = DOMAIN b.other
    /\ \A k \in DOMAIN a.other : k \in DOMAIN b.other =>
          a.other[k] = b.other[k]

\* C18: a schema written with _to_series and read back with _read_series
\* is a schema whose attributes all equal the original's, the log aside
C18_RoundTrip ==
    /\ last.op = "_to_series" => last.exc = "none"
    /\ last.op = "_read_series" =>
          /\ last.exc = "none"
          /\ SameAttributes(q, last.arg.v)

\* the arguments of the construction that was the last call
Given == last.arg.v

\* C19: Categorical(...) raises ValueError for every dtype outside str,
\* bool, int, float and tuple; Question(...) raises TypeError for a dtype
\* that is no class and for a name, description or clean_name that is no
\* str; no object results
C19_ConstructionFails ==
    /\ (/\ last.op = "Categorical"
        /\ ~(Val(Given["dtype"]).t = "type"
             /\ Val(Given["dtype"]).s \in CategoricalDtypes)) =>
          (last.exc = "ValueError" /\ q = NoQuestion)
    /\ (/\ last.op = "Question"
        /\ \/ Val(Given["dtype"]).t # "type"
           \/ ~IsStr(Given["name"])
           \/ ~IsStr(Given["description"])
           \/ ("clean_name" \in DOMAIN Given
               /\ ~IsStr(Given["clean_name"]))) =>
          (last.exc = "TypeError" /\ q = NoQuestion)

\* lower <= upper when both are present
InOrder(lo, up) == (lo.t # "None" /\ up.t # "None") => lo.h <= up.h

\* the pair given under key at the construction, (None, None) by default
GivenPair(key) ==
    IF key \in DOMAIN Given THEN Given[key].v ELSE <<PyNone, PyNone>>

\* C20: a Continous schema has lower <= upper when both are present, for
\* its limits and for its outliers; the constructor and
\* dictionary_update_outliers raise ValueError for a pair with
\* lower > upper and accept every other pair, equal bounds included
C20_LowerNotAboveUpper ==
    /\ q.type = "Continous" =>
          /\ InOrder(q.bound_lower, q.bound_upper)
          /\ InOrder(q.outlier_lower, q.outlier_upper)
    /\ (/\ last.op = "Continous"
        /\ ("dtype" \in DOMAIN Given => Val(Given["dtype"]).t = "type")) =>
          IF /\ InOrder(GivenPair("limits")[1], GivenPair("limits")[2])
             /\ InOrder(GivenPair("outliers")[1], GivenPair("outliers")[2])
          THEN /\ last.exc = "none"
               /\ <<q.bound_lower, q.bound_upper>> = GivenPair("limits")
               /\ <<q.outlier_lower, q.outlier_upper>> =
                     GivenPair("outliers")
          ELSE last.exc = "ValueError" /\ q = NoQuestion
    /\ last.op = "dictionary_update_outliers" =>
          IF InOrder(last.arg.v[1], last.arg.v[2])
          THEN /\ last.exc = "none"
               /\ <<q.outlier_lower, q.outlier_upper>> = last.arg.v
          ELSE last.exc = "ValueError"

\* a Continous schema built with equal limits, whose outliers were then
\* asked to be a pair out of order
C20_Witness ==
    /\ q.type = "Continous"
    /\ q.bound_lower = PyInt(2)
    /\ q.bound_upper = PyInt(2)
    /\ last.op = "dictionary_update_outliers"
    /\ last.exc = "ValueError"

\* a Continous schema whose outliers were updated to equal bounds
C20_WitnessEqual ==
    /\ q.type = "Continous"
    /\ last.op = "dictionary_update_outliers"
    /\ last.exc = "none"
    /\ q.outlier_lower = PyInt(3)
    /\ q.outlier_upper = PyInt(3)

-----------------------------------------------------------------------------
(* Claims about the reference value, the boolean tokens and validate *)

\* C21: a Categorical or Bool built without a reference value has the first
\* element of its admissible list as its reference value
C21_ReferenceIsFirst ==
    (/\ last.op \in {"Categorical", "Bool"}
     /\ last.exc = "none"
     /\ "reference_val" \notin DOMAIN Given) =>
       (q.order # <<>> /\ PyEq(q.ref_val, q.order[1]))

\* C22: on a bool column the strings '1' and '0', unless they are
\* placeholders, are cast to True and to False
C22_NumericStrings ==
    (Returned /\ last.dtype = "bool" /\ ~WasPlaceholder) =>
        /\ last.x = PyStr("1") => last.ret = PyBool(TRUE)
        /\ last.x = PyStr("0") => last.ret = PyBool(FALSE)

\* C23: after one validate call on a schema whose log was empty and whose
\* column is well typed, the first log entry is the verdict of the value
\* check: 'pass' with the pass message when every value is in the domain or
\* the bounds, 'error' with the message of the violation on a ValueError
C23_FirstEntryIsVerdict ==
    (/\ last.op = "validate" /\ last.before = 0
     /\ \/ last.exc = "none"
        \/ last.exc = "ValueError" /\ last.at = "value check") =>
        /\ q.log[1].command = "validate"
        /\ q.log[1].transform_type
              = (IF last.exc = "none" THEN "pass" ELSE "error")
        /\ q.log[1].transformation
              # "the data can be cast to " \o DtypeName(q)

-----------------------------------------------------------------------------
(* DataDictionary.validate *)

\* DataDictionary._validate_question_order(map_, check_order) with record
\* and verbose as validate leaves them: items are the questions of the
\* dictionary in order, frame the columns of map_ in order
_validate_question_order(items, frame, dictlog, check_order, now) ==
    LET map_columns == [i \in 1..Len(frame) |-> frame[i].name]
        dict_columns == [i \in 1..Len(items) |-> items[i].name]
        in_map == Values(map_columns) \ Values(dict_columns)
        in_dict == Values(dict_columns) \ Values(map_columns)
        message ==
            IF Values(map_columns) # Values(dict_columns)
            THEN "There are " \o ToString(Cardinality(in_dict))
                 \o " columns in the data dictionary not in the mapping "
                 \o "file, and " \o ToString(Cardinality(in_map))
                 \o " from the mapping file not in the data dictionary."
            ELSE IF map_columns # dict_columns /\ check_order
            THEN "The columns in the dictionary and map are not in the "
                 \o "same order."
            ELSE "The columns in the mapping file match the columns in "
                 \o "the data dictionary."
        pass_ == /\ Values(map_columns) = Values(dict_columns)
                 /\ ~(map_columns # dict_columns /\ check_order)
    IN  IF pass_
        THEN [exc |-> "none", at |-> "end",
              log |-> dict_update_log(dictlog, now, "validate", PyNone,
                                      "pass", message)]
        ELSE [exc |-> "ValueError", at |-> "order check",
              log |-> dict_update_log(dictlog, now, "validate", PyNone,
                                      "fail", message)]

RECURSIVE validate_columns(_, _, _, _, _, _)
\* the loop of DataDictionary.validate from the i-th question on: log is the
\* log of the dictionary, failures the names of the columns that failed
validate_columns(items, frame, i, log, failures, now) ==
    IF i > Len(items)
    THEN [exc |-> "none", at |-> "end", items |-> items, log |-> log,
          failures |-> failures, now |-> now]
    ELSE IF items[i].type = "Question"
    THEN validate_columns(items, frame, i + 1, log, failures, now)
    ELSE
    CHOOSE result \in
        {IF r.log = <<>>
         THEN \* question.log[-1] in the except clause
              [exc |-> "IndexError", at |-> items[i].name,
               items |-> [items EXCEPT ![i].log = r.log], log |-> log,
               failures |-> failures, now |-> now]
         ELSE validate_columns(
                  [items EXCEPT ![i].log = r.log], frame, i + 1,
                  Append(log, r.log[Len(r.log)]),
                  IF r.exc # "none"
                  THEN Append(failures, items[i].name) ELSE failures,
                  now + Len(r.log) - Len(items[i].log)) :
           r \in {LET j == CHOOSE k \in 1..Len(frame) :
                               frame[k].name = items[i].name
                  IN  IF items[i].type = "Continous"
                      THEN ContinousValidate(items[i], frame[j].cells, now)
                      ELSE CategoricalValidate(items[i], frame[j].cells,
                                               now)}} : TRUE

\* DataDictionary.validate(map_, check_order)
DataDictionary_validate(items, frame, dictlog, check_order, now) ==
    CHOOSE result \in
        {IF checked.exc # "none"
         THEN [exc |-> checked.exc, at |-> checked.at, items |-> items,
               log |-> checked.log, now |-> now + 1]
         ELSE
         CHOOSE ended \in
             {IF loop.exc # "none"
              THEN [exc |-> loop.exc, at |-> loop.at, items |-> loop.items,
                    log |-> loop.log, now |-> loop.now]
              ELSE IF loop.failures = <<>>
              THEN [exc |-> "none", at |-> "end", items |-> loop.items,
                    now |-> loop.now + 1,
                    log |-> dict_update_log(loop.log, loop.now, "validate",
                               PyNone, "pass", "All columns passed")]
              ELSE [exc |-> "ValueError", at |-> "summary",
                    items |-> loop.items, now |-> loop.now + 1,
                    log |-> dict_update_log(loop.log, loop.now, "validate",
                               PyNone, "error",
                               "There were issues with the following "
                               \o "columns:\n" \o join("\n", loop.failures)
                               \o "\nPlease See the log for more details.")] :
                loop \in {validate_columns(items, frame, 1, checked.log,
                                           <<>>, now + 1)}} : TRUE :
           checked \in {_validate_question_order(items, frame, dictlog,
                                                 check_order, now)}} : TRUE

\* the questions a dictionary of the model is made of, one cell of each
\* kind for their columns: a value that passes, a value outside the list or
\* the bounds, and a value that cannot be cast
DictQuestions ==
    {[BaseQuestion EXCEPT !.name = "nickname"]}
    \cup {[BaseQuestion EXCEPT
             !.type = "Continous", !.name = "years_on_team",
             !.dtype = "int", !.units = "years", !.bound_lower = lo] :
          lo \in {PyInt(1), PyInt(2)}}
    \cup {[BaseQuestion EXCEPT
             !.type = "Bool", !.name = "team_captain", !.dtype = "bool",
             !.order = OrderFor("bool"), !.ambiguous = Nothing,
             !.blanks = b] : b \in BlanksArgs}
    \cup {[BaseQuestion EXCEPT
             !.type = "Categorical", !.name = "position",
             !.order = OrderFor("str"), !.ambiguous = Nothing]}

\* a dictionary of two or three questions with a map_ of one row that has
\* the columns of the dictionary, in its order or in the reverse order
InitDict ==
    /\ q \in {items \in {<<a, b>> : a, b \in DictQuestions}
                        \cup {<<a, b, c>> : a, b, c \in DictQuestions} :
                 \A i, j \in 1..Len(items) :
                    items[i].name = items[j].name => i = j}
    /\ \E reversed \in BOOLEAN, cell \in [1..Len(q) -> 1..3] :
         map_ = [i \in 1..Len(q) |->
                    LET k == IF reversed THEN Len(q) + 1 - i ELSE i
                        cells ==
                            CASE q[k].type = "Continous" ->
                                    <<PyStr("1"), PyStr("3"), PyStr("a")>>
                              [] q[k].type = "Bool" ->
                                    <<PyStr("True"), PyBool(TRUE),
                                      PyStr("1")>>
                              [] OTHER ->
                                    <<PyStr("a"), PyStr("c"),
                                      PyStr("error")>>
                    IN  [name |-> q[k].name, cells |-> <<cells[cell[k]]>>]]
    /\ clock = 0
    /\ last = Uncalled
    /\ prev = Uncalled
    /\ dlog = <<>>

\* validate(map_, check_order) on the dictionary
ValidateDictionary ==
    /\ last.n < MaxCalls
    /\ \E check_order \in BOOLEAN :
         \E r \in {DataDictionary_validate(q, map_, dlog, check_order,
                                           clock)} :
             /\ q' = r.items
             /\ dlog' = r.log
             /\ clock' = r.now
             /\ last' = [Uncalled EXCEPT
                           !.op = "DataDictionary.validate",
                           !.exc = r.exc, !.at = r.at, !.n = last.n + 1,
                           !.before = Len(dlog)]
    /\ prev' = last
    /\ UNCHANGED map_

NextDict == ValidateDictionary

SpecDict == InitDict /\ [][NextDict]_vars

\* the columns of the dictionary that validate is called on, in order
Validated == SelectSeq(q, LAMBDA question : question.type # "Question")

\* the cells of the column of a question
CellsOf(question) ==
    map_[CHOOSE k \in 1..Len(map_) : map_[k].name = question.name].cells

\* validate of the question on its column raises
Fails(question) ==
    "none" # (IF question.type = "Continous"
              THEN ContinousValidate(question, CellsOf(question), 0)
              ELSE CategoricalValidate(question, CellsOf(question), 0)).exc

\* the two entries are the same entry
SameEntry(a, b) ==
    /\ a.timestamp = b.timestamp
    /\ a.command = b.command
    /\ a.transform_type = b.transform_type
    /\ a.transformation = b.transformation
    /\ a.column = b.column

\* C24: once the order check has passed, DataDictionary.validate validates
\* every Continous, Categorical and Bool column in the order of the
\* dictionary, also after a column failed; it appends to the log of the
\* dictionary the entry of the order check, one entry for each validated
\* column (the verdict of that column) in the order of the columns, and one
\* summary entry, and raises ValueError after the loop exactly when a column
\* failed
C24_EveryColumnInOrder ==
    (last.op = "DataDictionary.validate" /\ last.at # "order check") =>
        LET e == SubSeq(dlog, last.before + 1, Len(dlog))
            n == Len(Validated)
            failed == \E k \in 1..n : Fails(Validated[k])
        IN  /\ Len(e) = n + 2
            /\ e[1].transform_type = "pass" /\ e[1].column = PyNone
            /\ \A k \in 1..n :
                  LET question == Validated[k]
                  IN  /\ question.log # <<>>
                      /\ SameEntry(e[k + 1], question.log[Len(question.log)])
                      /\ e[k + 1].command = "validate"
                      /\ e[k + 1].transform_type
                            = (IF Fails(question) THEN "error" ELSE "pass")
            /\ e[n + 2].column = PyNone
            /\ e[n + 2].transform_type = (IF failed THEN "error" ELSE "pass")
            /\ last.exc = (IF failed THEN "ValueError" ELSE "none")
            /\ last.exc = "ValueError" => last.at = "summary"

-----------------------------------------------------------------------------
(* Claims about the admissible list and the column under transformations *)

\* no value twice and no null in the list
DuplicateFree(order) ==
    \A i, j \in 1..Len(order) : PyEq(order[i], order[j]) => i = j
NullFree(order) == \A i \in 1..Len(order) : ~isnull(order[i])

\* C25: the admissible list of a Categorical or Bool schema holds no value
\* twice and no null, after construction and after every sequence of
\* transformations
C25_ListDuplicateAndNullFree ==
    q.type \in {"Categorical", "Bool"} =>
        DuplicateFree(q.order) /\ NullFree(q.order)

\* every cell of the column is null or a value of the list
Consistent(series, order) ==
    \A i \in 1..Len(series) :
        isnull(series[i]) \/ PyIn(series[i], Values(order))

\* the transformations of a column and its admissible list
Transformations ==
    {"analysis_apply_conversion", "analyis_remove_ambiguous",
     "analysis_drop_infrequent", "analysis_remap_null",
     "analysis_convert_to_numeric", "analysis_convert_to_label"}

C27_NumericThenLabel ==
    (/\ prev.op = "analysis_convert_to_numeric"
     /\ last.op = "analysis_convert_to_label"
     /\ \A i \in 1..Len(prev.tables) : ~prev.tables[i].some) =>
        /\ q.order = prev.order
        /\ \A i \in 1..Len(prev.series) :
              PyIn(prev.series[i], Values(prev.order)) =>
                 map_[i] = prev.series[i]

-----------------------------------------------------------------------------
(* Claims about the placeholders and the frame of validate *)

\* a cell validate has to accept: a null, a placeholder, or a value that
\* can be cast and is in the admissible list or within the bounds
Acceptable(self, x) ==
    \/ isnull(x)
    \/ PyIn(x, Placeholders(self))
    \/ /\ Convertible(self.dtype, x)
       /\ IF self.type = "Continous"
          THEN ~BelowLower(self, <<x>>) /\ ~AboveUpper(self, <<x>>)
          ELSE Offending(self, <<x>>) = {}

\* C28: validate takes the union of missing, blanks and ambiguous as the
\* placeholders: on a Categorical as on a Continous schema with blanks, a
\* column whose cells are nulls, placeholders and admissible values passes,
\* a blank marker among them
C28_BlanksArePlaceholders ==
    (/\ last.op = "validate" /\ q.blanks.some
     /\ \A i \in 1..Len(map_) : Acceptable(q, map_[i])) =>
        last.exc = "none"

\* C29: validate changes nothing but the log: whether it passes or fails,
\* the cells of the column, the admissible list, the bounds, the placeholder
\* sets and every other attribute of the schema are as before the call
C29_ValidateOnlyLogs ==
    [][last'.op = "validate" =>
          /\ map_' = map_
          /\ q'.order = q.order
          /\ q'.bound_lower = q.bound_lower
          /\ q'.bound_upper = q.bound_upper
          /\ q'.missing = q.missing
          /\ q'.blanks = q.blanks
          /\ q'.ambiguous = q.ambiguous
          /\ [q' EXCEPT !.log = q.log] = q]_vars

\* a call that passes on a column of strs that it casts to int
C29_Witness ==
    /\ last.op = "validate" /\ last.exc = "none"
    /\ q.type = "Categorical" /\ q.dtype = "int"
    /\ map_ = <<PyStr("1"), PyStr("3")>>
    /\ q.order = <<PyStr("1"), PyStr("3")>>
    /\ Len(q.log) = 2

\* a call that fails in the value check
C29_WitnessFails ==
    /\ last.op = "validate" /\ last.exc = "ValueError"
    /\ q.type = "Continous" /\ q.dtype = "float"
    /\ q.bound_lower = PyInt(2)
    /\ map_ = <<PyStr("1"), PyStr("blank")>>
    /\ q.blanks.some
    /\ Len(q.log) = 2

-----------------------------------------------------------------------------
(* Claims about analysis_remap_dtype *)

\* C30: analysis_remap_dtype is all or nothing.  When some cell cannot be
\* cast it raises TypeError, the column and the admissible list are as
\* before and the log has one more entry, of the kind 'cast data type';
\* when every cell can be cast, the cells and the list are replaced by their
\* cast forms, nulls and placeholders unchanged
C30_RemapDtypeAllOrNothing ==
    last.op = "analysis_remap_dtype" =>
        LET cast == [x \in Values(last.series) \cup Values(last.order) |->
                        remap_(q.dtype, Placeholders(q), x)]
        IN  IF \E i \in 1..Len(last.series) : BadCell(q, last.series[i])
            THEN /\ last.exc = "TypeError"
                 /\ map_ = last.series
                 /\ q.order = last.order
                 /\ Len(Appended) = 1
                 /\ Appended[1].transform_type = "cast data type"
            ELSE /\ last.exc = "none"
                 /\ map_ = Apply(cast, last.series)
                 /\ Values(q.order)
                       = {cast[o] : o \in Values(last.order)}
                 /\ \A i \in 1..Len(map_) :
                       (isnull(last.series[i])
                        \/ PyIn(last.series[i], Placeholders(q))) =>
                          map_[i] = last.series[i]

=============================================================================
